---- MODULE Spec2Model ----
(***************************************************************************)
(* A model of the storage engine of chaturanga836/storage_system:          *)
(*   - engine/: the buffered WAL, the writer, the partition catalog and    *)
(*     the startup replay;                                                 *)
(*   - tenant-node/: the index manager, the per-source WAL and the data    *)
(*     source write path;                                                  *)
(*   - metadata-catalog/: the file compaction manager and the metadata     *)
(*     registry;                                                           *)
(*   - operation-node/: the auto-scaler;                                   *)
(*   - cbo-engine/: the cost-based query optimizer.                        *)
(* Each component has its own specification (SpecEngine, SpecIndex, ...)   *)
(* over the one set of variables; a specification leaves the variables of  *)
(* the other components at their initial values.                           *)
(***************************************************************************)
EXTENDS Integers, Sequences, FiniteSets, TLC

VARIABLES
    \* ---- engine/ (writer.py, wal_manager.py, catalog.py, replay.py)
    now,          \* the wall clock, in whole seconds (strftime("%Y%m%dT%H%M%S"))
    walBuffer,    \* WALManager.buffer of writer.wal
    walSegments,  \* the wal_<timestamp>.log files: creation second -> entries written
    currentWal,   \* WALManager.current_wal_path of writer.wal (its creation second)
    hotFiles,     \* the files the storage backend holds
    catalog,      \* config/catalog.json: path -> entry
    liveCatalog,  \* history: the catalog as built by register_partition of live writes
    wr,           \* the write_jsonl / write_parquet call in flight
    phase,        \* "live" | "down"
    replayKind,   \* "none" | "empty" | "persisted": the replay that produced catalog
    anyFailed,    \* history: some write call did not return successfully
    writes,       \* history: the number of write calls made
    restarts,     \* history: the number of process starts after the first
    \* ---- tenant-node/index.py
    idxData,      \* the parquet files of the source: path -> column -> contents
    indices,      \* IndexManager.indices: column -> path -> IndexEntry
    idxFilter,    \* the query_filters of the last optimize_file_list call
    idxResult,    \* what that call returned
    \* ---- metadata-catalog/compaction_manager.py, metadata.py
    cmFiles,         \* the *.parquet files under the source's parquet dir: path -> [rows, size_mb]
    files_metadata,  \* MetadataManager.files_metadata: the paths the catalog references
    indexedFiles,    \* the paths the IndexManager holds entries for
    cmLive,          \* history: every file written by the data source: path -> rows
    cmGroups,        \* the compaction groups _compact_source still has to execute
    cmJob,           \* the compaction job being executed
    active_jobs,     \* FileCompactionManager.active_jobs (job ids)
    completed_jobs,  \* FileCompactionManager.completed_jobs
    failed_jobs,     \* FileCompactionManager.failed_jobs
    cmJobs,          \* history: the number of jobs created
    \* ---- operation-node/auto_scaler.py
    scNow,             \* datetime.now(), in seconds
    scPolicy,          \* AutoScaler.policy: [min_workers, max_workers]
    current_workers,   \* AutoScaler.current_workers
    metrics_history,   \* the most recent entries of AutoScaler.metrics_history
    last_scale_up,     \* AutoScaler.last_scale_up
    last_scale_down,   \* AutoScaler.last_scale_down
    scPc,              \* the position of start_monitoring: "collect" | "evaluate" | "sleep"
    scLast,            \* history: what the last _evaluate_scaling found and did
    upTimes,           \* history: the times of the scale-up actions
    downTimes,         \* history: the times of the scale-down actions
    scEvals,           \* history: the number of loop iterations started
    \* ---- cbo-engine/query_optimizer.py
    table_stats,              \* QueryOptimizer.table_stats: source -> [row_count, size_mb]
    column_stats,             \* QueryOptimizer.column_stats: source -> column -> distinct values
    max_concurrent_searches,  \* tenant_config.max_concurrent_searches
    optQuery,                 \* the arguments of the last optimize_query call
    optPlans,                 \* history: the candidate plans that call generated
    optFailure,               \* history: the exception raised inside that call, or "none"
    optOutcome,               \* how that call ended: "plan" | "default" | "raised"
    optResult,                \* the plan that call returned
    \* ---- tenant-node/data_source.py, tenant-node/wal.py
    dsWal,            \* the lines of WALManager.current_log_file
    dsParquet,        \* the write ids whose parquet file is on disk
    dsFilesMetadata,  \* the write ids whose file is in MetadataManager.files_metadata
    dsIndices,        \* the write ids whose file has entries in IndexManager.indices
    dsIndicesSaved,   \* the write ids whose entries are in indices.json
    dsPc,             \* the position of write_data
    dsWriteId,        \* the write id of the last write_data call (0: none yet)
    dsSteps,          \* history: write id -> how each step of its call went
    dsReturned,       \* history: write id -> "id" (returned) | "raised"
    \* ---- engine/storage/wal_manager.py: WALManager(compress=False)
    wmClock,          \* datetime.utcnow(), in seconds
    wmBuffer,         \* WALManager.buffer
    wmFiles,          \* the segment files of wal_dir: timestamp -> [lines, nbytes]
    wmCurrent,        \* WALManager.current_wal_path (its timestamp)
    wmPhase,          \* "open" | "shut" (shutdown() was called) | "replayed"
    wmLoopAlive,      \* whether the flush thread is alive
    wmAppended,       \* history: the entries given to append, in call order
    wmLast,           \* history: the last append call and how it ended
    wmTimerFlushes,   \* history: the number of flushes made by the flush thread
    wmFlushFailures,  \* history: the number of flushes that failed
    wmFailedEntries,  \* history: the ids of the entries that were in a failed flush
    wmRaisedTo,       \* history: the ids of the entries whose append call raised
    wmReplayed,       \* history: the entries replay handed to the handler, in call order
    \* ---- tenant-node/data_source.py: search_data, aggregate_data, SourceManager
    srFiles,       \* source id -> the candidate files of the source, in read order
    srCall,        \* the arguments of the last search or aggregation call
    srChunks,      \* the chunks the last search_data call yielded
    srSources,     \* combined_results["sources"] of the last aggregate_all_sources
    srAggregated,  \* combined_results["aggregated"] of that call
    \* ---- engine/storage/migrate.py, engine/catalog.py, engine/writer.py
    mgCatalog,   \* config/catalog.json: the entries in key order
    mgDisk,      \* the partition files under root_path: <<directory, path>>
    mgWritten,   \* number of write_jsonl calls so far
    mgPc,        \* migrate_to_cold_storage: "idle", "loop", "done" or "raised"
    mgLoaded,    \* its local catalog
    mgIndex,     \* the entry its loop is at
    mgCutoff,    \* its cutoff
    mgMoved,     \* its moved counter
    mgReturned,  \* the value the last finished call returned
    mgAtStart,   \* catalog.json and the files when the call started
    mgRuns,      \* number of migrate_to_cold_storage calls so far
    \* ---- metadata-catalog/compaction_manager.py: CompactionPolicy
    cmCap,  \* policy.max_concurrent_compactions of the manager
    \* ---- tenant-node/wal.py: WALManager (segments, recovery, cleanup)
    twClock,     \* datetime.now(), in hours
    twFiles,     \* wal_<timestamp>.jsonl files: timestamp -> lines
    twCurrent,   \* current_log_file (its timestamp)
    twOps,       \* number of operations logged so far
    twMarked,    \* history: operation id -> "pending", or the status its caller marked
    twPending,   \* the last get_pending_operations: what it returned, and the unmarked operations then
    twReplayed,  \* the operation ids the last replay_operations returned
    \* ---- tenant-node/tenant_node.py, cbo-engine/query_optimizer.py: statistics refresh
    rfDisk,        \* source -> the parquet files under its parquet directory
    rfTableStats,  \* QueryOptimizer.table_stats: source -> QueryStats(row_count, file_count, size_bytes)
    rfRefreshes,   \* history: iterations of _refresh_statistics_periodically
    rfChanges,     \* history: files added to or removed from the sources
    \* ---- metadata-catalog/metadata.py: MetadataManager
    mdRegistered,  \* MetadataManager.mdRegistered: the registered file paths
    mdLock,          \* MetadataManager._lock: the task holding it, or NoTask
    mdPc,            \* task -> the call it is in and its position
    mdDisk,          \* the files that exist on disk
    mdCalls,         \* history: calls started
    \* ---- engine/cache.py: LRUCache
    cache,         \* LRUCache.cache: key -> _size of the item
    current_size,  \* LRUCache.current_size
    access_order,  \* LRUCache.access_order
    lruRaised,     \* history: a call ended with KeyError
    lruCalls,      \* history: the number of calls made
    \* ---- operation-node/auto_scaler.py: query tracking
    qtNow,              \* time.time(), in seconds
    query_start_times,  \* AutoScaler.query_start_times: query id -> start time
    active_queries,     \* AutoScaler.active_queries (its keys)
    qtCompletedAt,      \* history: query id -> the time register_query_complete was called
    qtLatency,          \* avg_query_time of the last snapshot, as [sum, count]
    qtCollects          \* history: snapshots taken

engineVars == <<now, walBuffer, walSegments, currentWal, hotFiles, catalog,
                liveCatalog, wr, phase, replayKind, anyFailed, writes, restarts>>

indexVars == <<idxData, indices, idxFilter, idxResult>>

compactionVars == <<cmFiles, files_metadata, indexedFiles, cmLive, cmGroups, cmJob,
                    active_jobs, completed_jobs, failed_jobs, cmJobs>>

scalerVars == <<scNow, scPolicy, current_workers, metrics_history, last_scale_up,
                last_scale_down, scPc, scLast, upTimes, downTimes, scEvals>>

optimizerVars == <<table_stats, column_stats, max_concurrent_searches, optQuery,
                   optPlans, optFailure, optOutcome, optResult>>

dataSourceVars == <<dsWal, dsParquet, dsFilesMetadata, dsIndices, dsIndicesSaved, dsPc,
                    dsWriteId, dsSteps, dsReturned>>

walManagerVars == <<wmClock, wmBuffer, wmFiles, wmCurrent, wmPhase, wmLoopAlive,
                    wmAppended, wmLast, wmTimerFlushes, wmFlushFailures, wmFailedEntries,
                    wmRaisedTo, wmReplayed>>

searchVars == <<srFiles, srCall, srChunks, srSources, srAggregated>>

migrateVars == <<mgCatalog, mgDisk, mgWritten, mgPc, mgLoaded, mgIndex, mgCutoff, mgMoved,
                 mgReturned, mgAtStart, mgRuns>>

policyVars == <<cmCap>>

tenantWalVars == <<twClock, twFiles, twCurrent, twOps, twMarked, twPending, twReplayed>>

refreshVars == <<rfDisk, rfTableStats, rfRefreshes, rfChanges>>

metadataVars == <<mdRegistered, mdLock, mdPc, mdDisk, mdCalls>>

cacheVars == <<cache, current_size, access_order, lruRaised, lruCalls>>

queryTimesVars == <<qtNow, query_start_times, active_queries, qtCompletedAt, qtLatency,
                    qtCollects>>

vars == <<engineVars, indexVars, compactionVars, scalerVars, optimizerVars, dataSourceVars,
          walManagerVars, searchVars, migrateVars, policyVars, tenantWalVars, refreshVars,
          metadataVars, cacheVars, queryTimesVars>>

\* What the actions of one component leave alone.
nonEngineVars == <<indexVars, compactionVars, scalerVars, optimizerVars, dataSourceVars,
                   walManagerVars, searchVars, migrateVars, policyVars, tenantWalVars,
                   refreshVars, metadataVars, cacheVars, queryTimesVars>>
nonIndexVars == <<engineVars, compactionVars, scalerVars, optimizerVars, dataSourceVars,
                  walManagerVars, searchVars, migrateVars, policyVars, tenantWalVars,
                  refreshVars, metadataVars, cacheVars, queryTimesVars>>
nonCompactionVars == <<engineVars, indexVars, scalerVars, optimizerVars, dataSourceVars,
                       walManagerVars, searchVars, migrateVars, policyVars, tenantWalVars,
                       refreshVars, metadataVars, cacheVars, queryTimesVars>>
nonScalerVars == <<engineVars, indexVars, compactionVars, optimizerVars, dataSourceVars,
                   walManagerVars, searchVars, migrateVars, policyVars, tenantWalVars,
                   refreshVars, metadataVars, cacheVars, queryTimesVars>>
nonOptimizerVars == <<engineVars, indexVars, compactionVars, scalerVars, dataSourceVars,
                      walManagerVars, searchVars, migrateVars, policyVars, tenantWalVars,
                      refreshVars, metadataVars, cacheVars, queryTimesVars>>
nonDataSourceVars == <<engineVars, indexVars, compactionVars, scalerVars, optimizerVars,
                       walManagerVars, searchVars, migrateVars, policyVars, tenantWalVars,
                       refreshVars, metadataVars, cacheVars, queryTimesVars>>
nonWalVars == <<engineVars, indexVars, compactionVars, scalerVars, optimizerVars,
                dataSourceVars, searchVars, migrateVars, policyVars, tenantWalVars,
                refreshVars, metadataVars, cacheVars, queryTimesVars>>
nonSearchVars == <<engineVars, indexVars, compactionVars, scalerVars, optimizerVars,
                   dataSourceVars, walManagerVars, migrateVars, policyVars, tenantWalVars,
                   refreshVars, metadataVars, cacheVars, queryTimesVars>>
nonMigrateVars == <<engineVars, indexVars, compactionVars, scalerVars, optimizerVars,
                    dataSourceVars, walManagerVars, searchVars, policyVars, tenantWalVars,
                    refreshVars, metadataVars, cacheVars, queryTimesVars>>
nonPolicyVars == <<engineVars, indexVars, compactionVars, scalerVars, optimizerVars,
                   dataSourceVars, walManagerVars, searchVars, migrateVars, tenantWalVars,
                   refreshVars, metadataVars, cacheVars, queryTimesVars>>
nonTenantWalVars == <<engineVars, indexVars, compactionVars, scalerVars, optimizerVars,
                      dataSourceVars, walManagerVars, searchVars, migrateVars, policyVars,
                      refreshVars, metadataVars, cacheVars, queryTimesVars>>
nonRefreshVars == <<engineVars, indexVars, compactionVars, scalerVars, optimizerVars,
                    dataSourceVars, walManagerVars, searchVars, migrateVars, policyVars,
                    tenantWalVars, metadataVars, cacheVars, queryTimesVars>>
nonMetadataVars == <<engineVars, indexVars, compactionVars, scalerVars, optimizerVars,
                     dataSourceVars, walManagerVars, searchVars, migrateVars, policyVars,
                     tenantWalVars, refreshVars, cacheVars, queryTimesVars>>
nonCacheVars == <<engineVars, indexVars, compactionVars, scalerVars, optimizerVars,
                  dataSourceVars, walManagerVars, searchVars, migrateVars, policyVars,
                  tenantWalVars, refreshVars, metadataVars, queryTimesVars>>
nonQueryTimesVars == <<engineVars, indexVars, compactionVars, scalerVars, optimizerVars,
                       dataSourceVars, walManagerVars, searchVars, migrateVars, policyVars,
                       tenantWalVars, refreshVars, metadataVars, cacheVars>>

(***************************************************************************)
(* Helpers                                                                 *)
(***************************************************************************)
Min2(a, b) == IF a <= b THEN a ELSE b
Max2(a, b) == IF a >= b THEN a ELSE b

RECURSIVE SumSeq(_)
SumSeq(s) == IF s = <<>> THEN 0 ELSE Head(s) + SumSeq(Tail(s))

(***************************************************************************)
(* engine/: bounds and constants                                           *)
(***************************************************************************)
MaxClock == 1           \* the clock runs over 0..MaxClock
MaxWrites == 2          \* write calls per behaviour
MaxRestarts == 1        \* process restarts per behaviour
ENTRIES_BEFORE_FLUSH == 50

NoWrite == [pc |-> "idle"]
NoTs == <<"none", 0>>
ClockTs(t) == <<"clock", t>>    \* datetime.now(UTC).strftime(...) at second t
RecTs(k) == <<"rec", k>>        \* a "timestamp" value carried by a record

\* A record is modelled by its "timestamp" field (or NoTs when it has none).
RecordValues == {NoTs, RecTs(1)}
\* The record lists a write call is given: empty, one record, two records.
RecordLists == {<<>>} \cup {<<r>> : r \in RecordValues}
               \cup {<<NoTs, RecTs(1)>>, <<RecTs(1), NoTs>>}

\* len(json.dumps(record)): {"id": 1} is 9 bytes, with a "timestamp" 46 bytes.
JsonLen(r) == IF r = NoTs THEN 9 ELSE 46

RECURSIVE JsonLens(_)
JsonLens(rs) == IF rs = <<>> THEN 0 ELSE JsonLen(Head(rs)) + JsonLens(Tail(rs))

\* len("\n".join(json.dumps(record) for record in records).encode("utf-8"))
DataLen(rs) == IF rs = <<>> THEN 0 ELSE JsonLens(rs) + (Len(rs) - 1)

\* records[i].get("timestamp", timestamp)
RecordTimestamp(r, timestamp) == IF r = NoTs THEN timestamp ELSE r

Ext(op) == IF op = "write_jsonl" THEN "jsonl" ELSE "parquet"
Filename(op, t) == <<Ext(op), t>>   \* f"{dataset}/{tenant_id}/{timestamp}.<ext>"

\* Whether the zlib stream of an entry holds a 0x0A byte: nowhere, somewhere
\* before its last byte, or as its last byte.
NlKinds == {"none", "inner", "last"}

(***************************************************************************)
(* engine/catalog.py                                                       *)
(***************************************************************************)
EmptyCatalog == [p \in {} |-> 0]

register_partition(cat, path, size, rows, min_ts, max_ts) ==
    [p \in (DOMAIN cat) \cup {path} |->
        IF p = path
        THEN [size |-> size, rows |-> rows, min_ts |-> min_ts,
              max_ts |-> max_ts, location |-> "hot"]
        ELSE cat[p]]

(***************************************************************************)
(* engine/storage/wal_manager.py                                           *)
(***************************************************************************)
\* _flush_locked with compress=True: the buffered entries are appended to the
\* current segment file as consecutive zlib streams.
FlushedSegments(segs, cur, buf) ==
    [k \in (DOMAIN segs) \cup {cur} |->
        IF k = cur
        THEN (IF cur \in DOMAIN segs THEN segs[cur] ELSE <<>>) \o buf
        ELSE segs[k]]

\* replay with compress=True reads a segment with "for line in f" and hands each
\* line to zlib.decompress, which decodes the first stream of its input and
\* ignores what follows it. An entry is delivered iff a line starts at its
\* stream and holds all of it.
RECURSIVE ReplayLines(_, _)
ReplayLines(entries, atStart) ==
    IF entries = <<>> THEN <<>>
    ELSE LET e == Head(entries)
             delivered == atStart /\ e.nl # "inner"
             nextStart == e.nl = "last"
         IN  (IF delivered THEN <<e>> ELSE <<>>) \o ReplayLines(Tail(entries), nextStart)

\* sorted(self.wal_dir.glob("wal_*.log")): the segments in name order.
RECURSIVE ReplaySegments(_, _)
ReplaySegments(segs, k) ==
    IF k > MaxClock THEN <<>>
    ELSE (IF k \in DOMAIN segs THEN ReplayLines(segs[k], TRUE) ELSE <<>>)
         \o ReplaySegments(segs, k + 1)

replay(segs) == ReplaySegments(segs, 0)

(***************************************************************************)
(* engine/storage/replay.py                                                *)
(***************************************************************************)
\* apply_fn: the entry carries no "size", and one timestamp for min and max.
apply_fn(cat, entry) ==
    IF entry.op \in {"write_jsonl", "write_parquet"}
    THEN register_partition(cat, entry.filename, 0, entry.num_records,
                            entry.timestamp, entry.timestamp)
    ELSE cat

RECURSIVE ApplyAll(_, _)
ApplyAll(cat, entries) ==
    IF entries = <<>> THEN cat
    ELSE ApplyAll(apply_fn(cat, Head(entries)), Tail(entries))

replay_all(cat, segs) == ApplyAll(cat, replay(segs))

(***************************************************************************)
(* engine/: actions                                                        *)
(***************************************************************************)
InitEngine ==
    /\ now = 0
    /\ walBuffer = <<>>
    /\ walSegments = [k \in {} |-> <<>>]
    /\ currentWal = 0
    /\ hotFiles = {}
    /\ catalog = EmptyCatalog
    /\ liveCatalog = EmptyCatalog
    /\ wr = NoWrite
    /\ phase = "live"
    /\ replayKind = "none"
    /\ anyFailed = FALSE
    /\ writes = 0
    /\ restarts = 0

\* The engine at rest, for the specifications of the other components.
EngineIdle == InitEngine

IndexIdle ==
    /\ idxData = <<>>
    /\ indices = <<>>
    /\ idxFilter = <<>>
    /\ idxResult = {}

CompactionIdle ==
    /\ cmFiles = <<>>
    /\ files_metadata = {}
    /\ indexedFiles = {}
    /\ cmLive = <<>>
    /\ cmGroups = <<>>
    /\ cmJob = [pc |-> "idle"]
    /\ active_jobs = {}
    /\ completed_jobs = {}
    /\ failed_jobs = {}
    /\ cmJobs = 0

EngineTick ==
    /\ now < MaxClock
    /\ now' = now + 1
    /\ UNCHANGED <<walBuffer, walSegments, currentWal, hotFiles, catalog,
                   liveCatalog, wr, phase, replayKind, anyFailed, writes, restarts>>
    /\ UNCHANGED nonEngineVars

\* write_jsonl / write_parquet up to and including wal.append(...)
WriteAppend ==
    /\ phase = "live"
    /\ wr = NoWrite
    /\ writes < MaxWrites
    /\ writes' = writes + 1
    /\ \E op \in {"write_jsonl", "write_parquet"}, records \in RecordLists, nl \in NlKinds :
          LET timestamp == ClockTs(now)
              filename == Filename(op, now)
              entry == [op |-> op, filename |-> filename, timestamp |-> timestamp,
                        num_records |-> Len(records), nl |-> nl]
              buf == Append(walBuffer, entry)
          IN  /\ IF Len(buf) >= ENTRIES_BEFORE_FLUSH
                 THEN /\ walBuffer' = <<>>
                      /\ walSegments' = FlushedSegments(walSegments, currentWal, buf)
                 ELSE /\ walBuffer' = buf
                      /\ UNCHANGED walSegments
              /\ wr' = [pc |-> "write_file", op |-> op, filename |-> filename,
                        timestamp |-> timestamp, records |-> records]
    /\ replayKind' = "none"
    /\ UNCHANGED <<now, currentWal, hotFiles, catalog, liveCatalog, phase, anyFailed, restarts>>
    /\ UNCHANGED nonEngineVars

\* storage.write_file(filename, data)
WriteFileOk ==
    /\ phase = "live"
    /\ wr.pc = "write_file"
    /\ hotFiles' = hotFiles \cup {wr.filename}
    /\ wr' = [wr EXCEPT !.pc = "register"]
    /\ UNCHANGED <<now, walBuffer, walSegments, currentWal, catalog, liveCatalog,
                   phase, replayKind, anyFailed, writes, restarts>>
    /\ UNCHANGED nonEngineVars

\* storage.write_file raises (disk full, permissions): the call ends there.
WriteFileFails ==
    /\ phase = "live"
    /\ wr.pc = "write_file"
    /\ wr' = NoWrite
    /\ anyFailed' = TRUE
    /\ UNCHANGED <<now, walBuffer, walSegments, currentWal, hotFiles, catalog,
                   liveCatalog, phase, replayKind, writes, restarts>>
    /\ UNCHANGED nonEngineVars

\* register_partition(filename, size, rows, records[0].get(...), records[-1].get(...))
WriteRegister ==
    /\ phase = "live"
    /\ wr.pc = "register"
    /\ IF wr.records = <<>>
       THEN \* records[0] raises IndexError
            /\ anyFailed' = TRUE
            /\ UNCHANGED <<catalog, liveCatalog>>
       ELSE LET rs == wr.records
                size == DataLen(rs)
                min_ts == RecordTimestamp(rs[1], wr.timestamp)
                max_ts == RecordTimestamp(rs[Len(rs)], wr.timestamp)
            IN  /\ catalog' = register_partition(catalog, wr.filename, size, Len(rs),
                                                 min_ts, max_ts)
                /\ liveCatalog' = register_partition(liveCatalog, wr.filename, size,
                                                     Len(rs), min_ts, max_ts)
                /\ UNCHANGED anyFailed
    /\ wr' = NoWrite
    /\ UNCHANGED <<now, walBuffer, walSegments, currentWal, hotFiles, phase, replayKind, writes, restarts>>
    /\ UNCHANGED nonEngineVars

\* _flush_loop: every FLUSH_INTERVAL_SECS, flush a non-empty buffer.
FlushLoop ==
    /\ phase = "live"
    /\ walBuffer # <<>>
    /\ walSegments' = FlushedSegments(walSegments, currentWal, walBuffer)
    /\ walBuffer' = <<>>
    /\ UNCHANGED <<now, currentWal, hotFiles, catalog, liveCatalog, wr, phase,
                   replayKind, anyFailed, writes, restarts>>
    /\ UNCHANGED nonEngineVars

\* atexit: wal.shutdown() flushes what the buffer holds; the process ends.
Shutdown ==
    /\ phase = "live"
    /\ wr = NoWrite
    /\ walSegments' = IF walBuffer = <<>> THEN walSegments
                      ELSE FlushedSegments(walSegments, currentWal, walBuffer)
    /\ walBuffer' = <<>>
    /\ phase' = "down"
    /\ UNCHANGED <<now, currentWal, hotFiles, catalog, liveCatalog, wr, replayKind,
                   anyFailed, writes, restarts>>
    /\ UNCHANGED nonEngineVars

\* The process is killed: the buffer and the call in flight are lost.
Crash ==
    /\ phase = "live"
    /\ walBuffer' = <<>>
    /\ wr' = NoWrite
    /\ anyFailed' = (anyFailed \/ wr # NoWrite \/ walBuffer # <<>>)
    /\ phase' = "down"
    /\ UNCHANGED <<now, walSegments, currentWal, hotFiles, catalog, liveCatalog,
                   replayKind, writes, restarts>>
    /\ UNCHANGED nonEngineVars

\* main.py startup_event: a new process (a new WALManager, so a new segment path)
\* replays the WAL over the catalog file it finds.
Startup ==
    /\ phase = "down"
    /\ restarts < MaxRestarts
    /\ restarts' = restarts + 1
    /\ catalog' = replay_all(catalog, walSegments)
    /\ currentWal' = now
    /\ phase' = "live"
    /\ replayKind' = "persisted"
    /\ UNCHANGED <<now, walBuffer, walSegments, hotFiles, liveCatalog, wr, anyFailed, writes>>
    /\ UNCHANGED nonEngineVars

\* The simulated restart: the catalog file is removed before the replay.
StartupEmptyCatalog ==
    /\ phase = "down"
    /\ restarts < MaxRestarts
    /\ restarts' = restarts + 1
    /\ catalog' = replay_all(EmptyCatalog, walSegments)
    /\ currentWal' = now
    /\ phase' = "live"
    /\ replayKind' = "empty"
    /\ UNCHANGED <<now, walBuffer, walSegments, hotFiles, liveCatalog, wr, anyFailed, writes>>
    /\ UNCHANGED nonEngineVars

NextEngine ==
    \/ EngineTick
    \/ WriteAppend
    \/ WriteFileOk
    \/ WriteFileFails
    \/ WriteRegister
    \/ FlushLoop
    \/ Shutdown
    \/ Crash
    \/ Startup
    \/ StartupEmptyCatalog

(***************************************************************************)
(* engine/: properties                                                     *)
(***************************************************************************)
SegmentFilenames ==
    UNION {{walSegments[k][i].filename : i \in 1..Len(walSegments[k])} : k \in DOMAIN walSegments}
BufferFilenames == {walBuffer[i].filename : i \in 1..Len(walBuffer)}

\* C1: after any sequence of successful writes, replaying the WAL into an empty
\* catalog after a restart yields the catalog the live writes built, path by
\* path and field by field (size, rows, min_ts, max_ts, location).
C1_ReplayRebuildsCatalog ==
    (replayKind = "empty" /\ ~anyFailed) => catalog = liveCatalog

\* C9: no data file and no catalog entry exists while the WAL entry of its
\* write is only in the in-memory buffer (not yet in a segment file).
C9_WalDurableBeforeEffects ==
    \A f \in hotFiles \cup DOMAIN catalog :
        ~(f \in BufferFilenames /\ f \notin SegmentFilenames)

\* The sum of the rows of the entries of a catalog.
RECURSIVE CatalogRows(_)
CatalogRows(cat) ==
    IF DOMAIN cat = {} THEN 0
    ELSE LET p == CHOOSE q \in DOMAIN cat : TRUE
         IN  cat[p].rows + CatalogRows([q \in (DOMAIN cat) \ {p} |-> cat[q]])

\* C33: a write call that returns successfully registers a path no earlier
\* write registered, so the catalog gains one entry and its total row count
\* grows by the rows of the write.
C33_EachWriteAddsItsOwnEntry ==
    [][(wr.pc = "register" /\ wr.records # <<>> /\ wr' = NoWrite /\ phase' = "live") =>
          /\ wr.filename \notin DOMAIN liveCatalog
          /\ Cardinality(DOMAIN liveCatalog') = Cardinality(DOMAIN liveCatalog) + 1
          /\ CatalogRows(liveCatalog') = CatalogRows(liveCatalog) + Len(wr.records)]_vars

\* The entries the segment files hold, in segment order and append order: what
\* replay with compress=False delivers (one JSON line per entry).
RECURSIVE WrittenEntries(_, _)
WrittenEntries(segs, k) ==
    IF k > MaxClock THEN <<>>
    ELSE (IF k \in DOMAIN segs THEN segs[k] ELSE <<>>) \o WrittenEntries(segs, k + 1)

\* C26: with compression enabled, replay delivers every flushed entry exactly
\* once in append order, as with compression disabled, whatever the entries
\* hold and however many entries a segment holds.
C26_CompressedReplayDeliversAll ==
    replay(walSegments) = WrittenEntries(walSegments, 0)

(***************************************************************************)
(* tenant-node/index.py: values                                            *)
(***************************************************************************)
UNIQUE_VALUES_THRESHOLD == 100

\* A cell or filter value: a numpy.int64, a Python int, a float (numpy.float64 is
\* a Python float), a str (its characters as code points) or NaN / None.
Int64V(n) == [t |-> "int64", n |-> n, s |-> <<>>]
IntV(n) == [t |-> "int", n |-> n, s |-> <<>>]
FloatV(n) == [t |-> "float", n |-> n, s |-> <<>>]
StrV(s) == [t |-> "str", n |-> 0, s |-> s]
NaN == [t |-> "nan", n |-> 0, s |-> <<>>]

NumTypes == {"int64", "int", "float"}

\* str(n) of a non-negative integer, as code points ("0" is 48).
RECURSIVE Digits(_)
Digits(n) == IF n < 10 THEN <<48 + n>> ELSE Digits(n \div 10) \o <<48 + (n % 10)>>

\* a < b on strings
RECURSIVE LexLt(_, _)
LexLt(a, b) ==
    IF b = <<>> THEN FALSE
    ELSE IF a = <<>> THEN TRUE
    ELSE IF Head(a) # Head(b) THEN Head(a) < Head(b)
    ELSE LexLt(Tail(a), Tail(b))

\* Python's a == b
PyEq(a, b) ==
    \/ a.t \in NumTypes /\ b.t \in NumTypes /\ a.n = b.n
    \/ a.t = "str" /\ b.t = "str" /\ a.s = b.s

\* Python's a < b and a <= b: "T", "F", or "E" when the comparison raises TypeError.
PyLt(a, b) ==
    IF a.t = "str" /\ b.t = "str" THEN (IF LexLt(a.s, b.s) THEN "T" ELSE "F")
    ELSE IF a.t = "str" \/ b.t = "str" THEN "E"
    ELSE IF a.t = "nan" \/ b.t = "nan" THEN "F"
    ELSE IF a.n < b.n THEN "T" ELSE "F"

PyLe(a, b) ==
    IF a.t = "str" /\ b.t = "str" THEN (IF a.s = b.s \/ LexLt(a.s, b.s) THEN "T" ELSE "F")
    ELSE IF a.t = "str" \/ b.t = "str" THEN "E"
    ELSE IF a.t = "nan" \/ b.t = "nan" THEN "F"
    ELSE IF a.n <= b.n THEN "T" ELSE "F"

\* value in a_set
PyIn(value, a_set) == \E u \in a_set : PyEq(value, u)

\* json.dump(..., default=str) followed by json.load: a numpy.int64 is not JSON
\* serializable, so default=str writes it as the string str(n).
JsonRoundTrip(x) == IF x.t = "int64" THEN StrV(Digits(x.n)) ELSE x

(***************************************************************************)
(* tenant-node/index.py: index entries                                     *)
(***************************************************************************)
IndexColumns == {"x", "y"}
IndexFiles == {"f1", "f2"}

\* The non-null values of a column of a DataFrame (a set of rows).
ColumnValues(df, column) == {r[column] : r \in df} \ {NaN}
ColumnHasNull(df, column) == \E r \in df : r[column] = NaN
DfColumns(df) == UNION {DOMAIN r : r \in df}

\* min() / max() of a column, skipping nulls; NaN when there is no value.
ColumnMin(vals) ==
    IF vals = {} THEN NaN
    ELSE CHOOSE m \in vals : \A v \in vals : PyLe(m, v) = "T"
ColumnMax(vals) ==
    IF vals = {} THEN NaN
    ELSE CHOOSE m \in vals : \A v \in vals : PyLe(v, m) = "T"

NoneSet == [has |-> FALSE, set |-> {}]
SomeSet(vals) == [has |-> TRUE, set |-> vals]

\* The IndexEntry update_indices_for_data builds for one column of df.
NewIndexEntry(df, column) ==
    LET vals == ColumnValues(df, column)
        nulls == Cardinality({r \in df : r[column] = NaN})
        nunique == Cardinality(vals) + (IF ColumnHasNull(df, column) THEN 1 ELSE 0)
    IN  [min_value |-> ColumnMin(vals),
         max_value |-> ColumnMax(vals),
         unique_values |-> IF nunique <= UNIQUE_VALUES_THRESHOLD
                           THEN SomeSet(vals) ELSE NoneSet,
         null_count |-> Int64V(nulls)]

\* self.indices after update_indices_for_data(df, file_path)
update_indices_for_data(ind, df, file_path) ==
    LET cols == {c \in IndexColumns : c \in DfColumns(df)}
    IN  [c \in (DOMAIN ind) \cup cols |->
            IF c \in cols
            THEN LET old == IF c \in DOMAIN ind THEN ind[c] ELSE <<>>
                 IN  [f \in (DOMAIN old) \cup {file_path} |->
                        IF f = file_path THEN NewIndexEntry(df, c) ELSE old[f]]
            ELSE ind[c]]

\* IndexEntry.to_dict, json.dump(default=str), json.load, IndexEntry.from_dict
ReloadEntry(e) ==
    [min_value |-> JsonRoundTrip(e.min_value),
     max_value |-> JsonRoundTrip(e.max_value),
     unique_values |-> IF e.unique_values.has /\ e.unique_values.set # {}
                       THEN SomeSet({JsonRoundTrip(u) : u \in e.unique_values.set})
                       ELSE NoneSet,
     null_count |-> JsonRoundTrip(e.null_count)]

\* _save_indices followed, in the next process, by _load_indices
load_indices(ind) == [c \in DOMAIN ind |-> [f \in DOMAIN ind[c] |-> ReloadEntry(ind[c][f])]]

(***************************************************************************)
(* tenant-node/index.py: pruning                                           *)
(***************************************************************************)
Cond(op, value) == [op |-> op, value |-> value, values |-> {}]
CondIn(values) == [op |-> "$in", value |-> NaN, values |-> values]

\* min_value <= value <= max_value: TRUE also when a comparison raises, as the
\* except branch of _file_matches_condition returns True.
InRange(entry, value) ==
    LET lo == PyLe(entry.min_value, value)
    IN  IF lo = "E" THEN TRUE
        ELSE IF lo = "F" THEN FALSE
        ELSE PyLe(value, entry.max_value) # "F"

\* "if index_entry.unique_values:" is false for None and for the empty set.
NeverUniqueValues(entry) == FALSE
HasUniqueValues(entry) == entry.unique_values.has /\ entry.unique_values.set # {}

_file_matches_condition(entry, condition) ==
    CASE condition.op \in {"$eq", "plain"} ->
            IF HasUniqueValues(entry)
            THEN PyIn(condition.value, entry.unique_values.set)
            ELSE InRange(entry, condition.value)
      [] condition.op = "$gt" -> PyLt(condition.value, entry.max_value) # "F"
      [] condition.op = "$lt" -> PyLt(entry.min_value, condition.value) # "F"
      [] condition.op = "$gte" -> PyLe(condition.value, entry.max_value) # "F"
      [] condition.op = "$lte" -> PyLe(entry.min_value, condition.value) # "F"
      [] condition.op = "$in" ->
            IF HasUniqueValues(entry)
            THEN \E v \in condition.values : PyIn(v, entry.unique_values.set)
            ELSE \E v \in condition.values : InRange(entry, v)
      [] OTHER -> TRUE

\* optimize_file_list: the files of file_paths that survive every filtered column
\* that has an index (a file without an entry for such a column does not).
optimize_file_list(ind, file_paths, query_filters) ==
    {f \in file_paths :
        \A column \in (DOMAIN query_filters) \cap (DOMAIN ind) :
            /\ f \in DOMAIN ind[column]
            /\ _file_matches_condition(ind[column][f], query_filters[column])}

\* s contains p (str.contains with a plain pattern)
Contains(s, p) == \E i \in 1..(Len(s) - Len(p) + 1) : SubSeq(s, i, i + Len(p) - 1) = p

\* What a condition asks of a cell: the meaning of each predicate kind.
Satisfies(cell, condition) ==
    CASE condition.op \in {"$eq", "plain"} -> PyEq(cell, condition.value)
      [] condition.op = "$gt" -> PyLt(condition.value, cell) = "T"
      [] condition.op = "$lt" -> PyLt(cell, condition.value) = "T"
      [] condition.op = "$gte" -> PyLe(condition.value, cell) = "T"
      [] condition.op = "$lte" -> PyLe(cell, condition.value) = "T"
      [] condition.op = "$in" -> PyIn(cell, condition.values)
      [] OTHER -> /\ cell.t = "str"
                  /\ condition.value.t = "str"
                  /\ Contains(cell.s, condition.value.s)

SatisfiesFilter(row, query_filters) ==
    \A column \in (DOMAIN query_filters) \cap (DOMAIN row) :
        Satisfies(row[column], query_filters[column])

(***************************************************************************)
(* tenant-node/data_source.py: _apply_filters_pandas                       *)
(***************************************************************************)
\* The mask of one condition at one cell: "T", "F", or "E" when building the
\* mask raises (an ordering between a string and a number, .str on a column
\* that holds no string, a pattern that is no string). The if/elif chain has
\* branches for $eq, $gt, $lt, $in and $like; a dict with none of these keys
\* ($gte, $lte) filters nothing.
CellMask(cell, condition) ==
    CASE condition.op \in {"$eq", "plain"} ->
            IF PyEq(cell, condition.value) THEN "T" ELSE "F"
      [] condition.op = "$gt" -> PyLt(condition.value, cell)
      [] condition.op = "$lt" -> PyLt(cell, condition.value)
      [] condition.op = "$in" -> IF PyIn(cell, condition.values) THEN "T" ELSE "F"
      [] condition.op = "$like" ->
            IF condition.value.t # "str" THEN "E"
            ELSE IF cell.t = "str"
                 THEN (IF Contains(cell.s, condition.value.s) THEN "T" ELSE "F")
                 ELSE "F"
      [] OTHER -> "T"

\* result[column].str exists only for a column of strings.
ColumnRaises(df, column, condition) ==
    \/ \E row \in df : CellMask(row[column], condition) = "E"
    \/ condition.op = "$like" /\ \A row \in df : row[column].t # "str"

\* The rows of df that _apply_filters_pandas keeps; a raised exception leaves
\* search_data's loop body for this file (logged, no row yielded).
_apply_filters_pandas(df, query_filters) ==
    LET columns == (DOMAIN query_filters) \cap DfColumns(df)
    IN  IF \E column \in columns : ColumnRaises(df, column, query_filters[column])
        THEN {}
        ELSE {row \in df : \A column \in columns :
                               CellMask(row[column], query_filters[column]) = "T"}

(***************************************************************************)
(* tenant-node/index.py: inputs                                            *)
(***************************************************************************)
CharA == <<97>>   \* "a"

DfInt1 == {[x |-> Int64V(5), y |-> Int64V(1)]}
DfInt2 == {[x |-> Int64V(5), y |-> Int64V(1)], [x |-> Int64V(7), y |-> Int64V(2)]}
\* more distinct values than the threshold for keeping the unique values
DfMany == {[x |-> Int64V(i), y |-> Int64V(1)] : i \in 0..UNIQUE_VALUES_THRESHOLD}
DfFloatNull == {[x |-> FloatV(5), y |-> Int64V(1)], [x |-> NaN, y |-> Int64V(2)]}
DfAllNull == {[x |-> NaN, y |-> Int64V(1)]}
DfStr == {[x |-> StrV(CharA), y |-> Int64V(1)], [x |-> StrV(Digits(5)), y |-> Int64V(2)]}
DfNoY == {[x |-> Int64V(7)]}

DataFrames == {DfInt1, DfInt2, DfMany, DfFloatNull, DfAllNull, DfStr, DfNoY}

FilterValues == {IntV(5), FloatV(6), StrV(Digits(5)), StrV(CharA)}
FilterOps == {"$eq", "$gt", "$lt", "$gte", "$lte", "$like", "plain"}
FilterValueSets == {{IntV(5), IntV(9)}, {IntV(6)}, {StrV(CharA), IntV(7)}}

ConditionsX == {Cond(op, v) : op \in FilterOps, v \in FilterValues}
                   \cup {CondIn(vs) : vs \in FilterValueSets}
ConditionsY == {Cond("$eq", IntV(1)), Cond("$gt", IntV(1))}

QueryFilters ==
    {[x |-> c] : c \in ConditionsX}
        \cup {[y |-> c] : c \in ConditionsY}
        \cup {[x |-> Cond("plain", v), y |-> cy] : v \in FilterValues, cy \in ConditionsY}

(***************************************************************************)
(* tenant-node/index.py: actions                                           *)
(***************************************************************************)
\* A parquet file is written (or rewritten) and update_indices_for_data runs,
\* ending with _save_indices.
IdxWrite ==
    /\ \E f \in IndexFiles, df \in DataFrames :
          /\ idxData' = [g \in (DOMAIN idxData) \cup {f} |-> IF g = f THEN df ELSE idxData[g]]
          /\ indices' = update_indices_for_data(indices, df, f)
    /\ idxFilter' = <<>>
    /\ idxResult' = {}
    /\ UNCHANGED nonIndexVars

\* The process restarts: IndexManager.initialize loads indices.json.
IdxRestart ==
    /\ indices # <<>>
    /\ indices' = load_indices(indices)
    /\ idxFilter' = <<>>
    /\ idxResult' = {}
    /\ UNCHANGED idxData
    /\ UNCHANGED nonIndexVars

\* search_data: optimize_file_list over the files of the source.
IdxSearch ==
    /\ idxData # <<>>
    /\ \E query_filters \in QueryFilters :
          /\ idxFilter' = query_filters
          /\ idxResult' = optimize_file_list(indices, DOMAIN idxData, query_filters)
    /\ UNCHANGED <<idxData, indices>>
    /\ UNCHANGED nonIndexVars

NextIndex ==
    \/ IdxWrite
    \/ IdxRestart
    \/ IdxSearch

(***************************************************************************)
(* tenant-node/index.py: properties                                        *)
(***************************************************************************)
\* The file has an entry, computed from its contents, for every filtered column
\* that is indexed.
HasEntries(f, query_filters) ==
    \A column \in (DOMAIN query_filters) \cap (DOMAIN indices) :
        column \in DfColumns(idxData[f]) /\ f \in DOMAIN indices[column]

\* C2: optimize_file_list never removes a file that has index entries computed
\* from its contents and holds at least one row matching the filter.
C2_PruningSound ==
    idxFilter # <<>> =>
        \A f \in DOMAIN idxData :
            (/\ HasEntries(f, idxFilter)
             /\ \E row \in idxData[f] : SatisfiesFilter(row, idxFilter))
            => f \in idxResult

\* The files whose entry for the one filtered column records the complete set
\* of the distinct values of the column, under an equality filter
RecordedComplete(f, column) ==
    /\ DOMAIN idxFilter = {column}
    /\ idxFilter[column].op \in {"$eq", "plain"}
    /\ column \in DOMAIN indices
    /\ f \in DOMAIN indices[column]
    /\ column \in DfColumns(idxData[f])
    /\ indices[column][f].unique_values.has
    /\ indices[column][f].unique_values.set = ColumnValues(idxData[f], column)

KeptIffRecorded(f, column) ==
    LET in_set == PyIn(idxFilter[column].value, indices[column][f].unique_values.set)
    IN  /\ _file_matches_condition(indices[column][f], idxFilter[column]) <=> in_set
        /\ f \in idxResult <=> in_set

\* C23 as stated: when the entry records the complete set of distinct values,
\* an equality filter keeps the file if and only if the queried value is in
\* the recorded set.
C23_EqualityKeepsIffRecorded ==
    \A f \in DOMAIN idxData, column \in IndexColumns :
        RecordedComplete(f, column) => KeptIffRecorded(f, column)

\* C23 as the code has it: the same, when the recorded set is not empty (an
\* empty set sends the filter to the min/max branch, which keeps the file
\* when the comparison raises).
C23_EqualityKeepsIffRecordedNonEmpty ==
    \A f \in DOMAIN idxData, column \in IndexColumns :
        (RecordedComplete(f, column) /\ indices[column][f].unique_values.set # {}) =>
            KeptIffRecorded(f, column)

\* A value inside the range but outside the recorded set excludes the file
C23_Witness ==
    \E f \in DOMAIN idxData, column \in IndexColumns :
        /\ RecordedComplete(f, column)
        /\ Cardinality(indices[column][f].unique_values.set) >= 2
        /\ f \notin idxResult
        /\ PyLe(indices[column][f].min_value, idxFilter[column].value) = "T"
        /\ PyLe(idxFilter[column].value, indices[column][f].max_value) = "T"

\* C34: a file is missing from the result of optimize_file_list only when one
\* of its own index entries rules a condition of the filter out; a file with
\* no entry for a filtered column is kept.
C34_RemovedOnlyByOwnEntry ==
    idxFilter # <<>> =>
        \A f \in (DOMAIN idxData) \ idxResult :
            \E column \in (DOMAIN idxFilter) \cap (DOMAIN indices) :
                /\ f \in DOMAIN indices[column]
                /\ ~_file_matches_condition(indices[column][f], idxFilter[column])

\* search_data without offset or limit: the rows of the chunks it yields, file
\* by file over the optimized list.
YieldedRows(f) == _apply_filters_pandas(idxData[f], idxFilter)

\* C28: every row search_data yields satisfies every condition of the filter,
\* whatever the predicate kind ($eq, $gt, $lt, $gte, $lte, $in, $like, plain).
C28_YieldedRowsSatisfyFilter ==
    idxFilter # <<>> =>
        \A f \in idxResult : \A row \in YieldedRows(f) : SatisfiesFilter(row, idxFilter)

(***************************************************************************)
(* metadata-catalog/compaction_manager.py: policy and files                *)
(***************************************************************************)
MaxParts == 3                   \* files the data source writes per behaviour
MaxJobs == 2                    \* compaction jobs created per behaviour
small_file_threshold == 2       \* CompactionPolicy(small_file_threshold=2, ...)
compaction_batch_size == 2      \* CompactionPolicy(compaction_batch_size=2, ...)
min_file_size_mb == 50
total_files_threshold == 100
max_concurrent_compactions == 3

\* The caps a CompactionPolicy is built with: none, one, the default
CapValues == {0, 1, max_concurrent_compactions}

\* FileCompactionManager.__init__: compaction_policy or CompactionPolicy()
DefaultPolicy == cmCap = max_concurrent_compactions
ConfiguredPolicy == cmCap \in CapValues

\* if len(self.active_jobs) >= self.policy.max_concurrent_compactions: break
NeverAtCap(active, cap) == FALSE
AtCap(active, cap) == Cardinality(active) >= cap

\* Who calls _compact_source: a task of _run_compaction_cycle,
\* _check_urgent_compactions or trigger_manual_compaction
Callers == {"cycle", "urgent", "manual"}

NoJob == [pc |-> "idle"]

\* A path is <<depth, kind, id>>: depth 0 is the partition directory itself, depth
\* d + 1 the compaction_backup/<date> directory below the directory of depth d.
PartPath(i) == <<0, "part", i>>
OutputPath(depth, job_id) == <<depth, "compacted", job_id>>
SharedBackupName(path) == <<path[1] + 1, "part", 0>>
BackupPath(path) == <<path[1] + 1, path[2], path[3]>>
ParentOf(path) == path[1]

PartRows == {1, 2}
PartSizes == {20, 60}           \* MB: below and above min_file_size_mb

RECURSIVE SumOver(_, _, _)
SumOver(paths, files, field) ==
    IF paths = {} THEN 0
    ELSE LET p == CHOOSE q \in paths : TRUE
         IN  files[p][field] + SumOver(paths \ {p}, files, field)

\* _analyze_files: parquet_dir.rglob("*.parquet") also finds the backup files.
SmallFiles(files) == {p \in DOMAIN files : files[p].size_mb < min_file_size_mb}

\* _should_compact; old is the number of files older than age_threshold_hours.
_should_compact(files, old) ==
    \/ Cardinality(SmallFiles(files)) >= small_file_threshold
    \/ Cardinality(DOMAIN files) >= total_files_threshold
    \/ old >= small_file_threshold

\* The orders in which rglob may list a set of files.
Orderings(S) ==
    {o \in [1..Cardinality(S) -> S] : \A i, j \in DOMAIN o : o[i] = o[j] => i = j}

\* for i in range(0, len(files), batch_size): batches of at least 2 files
RECURSIVE Batches(_)
Batches(files) ==
    IF files = <<>> THEN <<>>
    ELSE LET n == IF Len(files) < compaction_batch_size THEN Len(files)
                  ELSE compaction_batch_size
             batch == SubSeq(files, 1, n)
             rest == SubSeq(files, n + 1, Len(files))
         IN  (IF n >= 2 THEN <<batch>> ELSE <<>>) \o Batches(rest)

\* _find_compaction_candidates: the small files grouped by parent directory, in
\* the order the directories first appear, each directory split into batches.
RECURSIVE PartitionGroups(_)
PartitionGroups(small_files) ==
    IF small_files = <<>> THEN <<>>
    ELSE LET d == ParentOf(Head(small_files))
             same(p) == ParentOf(p) = d
             other(p) == ParentOf(p) # d
             files == SelectSeq(small_files, same)
         IN  (IF Len(files) >= 2 THEN Batches(files) ELSE <<>>)
             \o PartitionGroups(SelectSeq(small_files, other))

SeqRange(s) == {s[i] : i \in DOMAIN s}

\* What get_files_for_query hands to a search without filters: the referenced
\* files that still exist; RowsSeen is the number of rows the search reads.
get_files_for_query(catalog_paths, files) == {p \in catalog_paths : p \in DOMAIN files}
RowsSeen == SumOver(get_files_for_query(files_metadata, cmFiles), cmFiles, "rows")
RowsWritten == SumOver(DOMAIN cmLive, cmLive, "rows")

(***************************************************************************)
(* metadata-catalog/compaction_manager.py: actions                         *)
(***************************************************************************)
\* The job as the manager's lists keep it, with the rows of its inputs and of
\* its output as history fields.
JobRecord(job, output_rows) ==
    [job_id |-> job.job_id, input_files |-> SeqRange(job.input_files),
     input_rows |-> job.input_rows, output_file |-> job.output_file,
     output_rows |-> output_rows]

\* The except branch of _execute_compaction_job
JobFailsUnrecorded(job) ==
    /\ failed_jobs' = failed_jobs
    /\ active_jobs' = active_jobs \ {job.job_id}
    /\ cmJob' = NoJob

JobFails(job) ==
    /\ failed_jobs' = failed_jobs \cup {JobRecord(job, 0)}
    /\ active_jobs' = active_jobs \ {job.job_id}
    /\ cmJob' = NoJob

\* The data source writes a parquet file, registers it in the catalog and
\* indexes it (DataSource.write_data).
CmIngest ==
    /\ Cardinality(DOMAIN cmLive) < MaxParts
    /\ \E rows \in PartRows, size_mb \in PartSizes :
          LET path == PartPath(Cardinality(DOMAIN cmLive) + 1)
              file == [rows |-> rows, size_mb |-> size_mb]
          IN  /\ cmFiles' = [p \in (DOMAIN cmFiles) \cup {path} |->
                                IF p = path THEN file ELSE cmFiles[p]]
              /\ cmLive' = [p \in (DOMAIN cmLive) \cup {path} |->
                                IF p = path THEN file ELSE cmLive[p]]
              /\ files_metadata' = files_metadata \cup {path}
              /\ indexedFiles' = indexedFiles \cup {path}
    /\ UNCHANGED <<cmGroups, cmJob, active_jobs, completed_jobs, failed_jobs, cmJobs>>
    /\ UNCHANGED nonCompactionVars

\* _compact_source up to the loop over the groups; _run_compaction_cycle
\* creates the task only below the cap.
CmAnalyze ==
    /\ cmJob = NoJob
    /\ cmGroups = <<>>
    /\ cmJobs < MaxJobs
    /\ \E caller \in Callers : caller = "cycle" => ~AtCap(active_jobs, cmCap)
    /\ \E old \in 0..Cardinality(DOMAIN cmFiles) :
          /\ _should_compact(cmFiles, old)
          /\ \E order \in Orderings(SmallFiles(cmFiles)) :
                LET compaction_groups == PartitionGroups(order)
                IN  /\ compaction_groups # <<>>
                    /\ cmJobs + Len(compaction_groups) <= MaxJobs
                    /\ cmGroups' = compaction_groups
    /\ UNCHANGED <<cmFiles, files_metadata, indexedFiles, cmLive, cmJob, active_jobs,
                   completed_jobs, failed_jobs, cmJobs>>
    /\ UNCHANGED nonCompactionVars

\* The loop of _compact_source and _execute_compaction_job up to the call of
\* _compact_files.
CmStartJob ==
    /\ cmJob = NoJob
    /\ cmGroups # <<>>
    /\ IF AtCap(active_jobs, cmCap)
       THEN /\ cmGroups' = <<>>
            /\ UNCHANGED <<cmJob, active_jobs, cmJobs>>
       ELSE LET file_group == Head(cmGroups)
            IN  /\ cmGroups' = Tail(cmGroups)
                /\ IF SeqRange(file_group) \subseteq DOMAIN cmFiles
                   THEN /\ cmJob' = [pc |-> "read", job_id |-> cmJobs + 1,
                                     input_files |-> file_group,
                                     input_rows |-> SumOver(SeqRange(file_group), cmFiles, "rows"),
                                     dataframes |-> {}, output_file |-> <<>>]
                        /\ active_jobs' = active_jobs \cup {cmJobs + 1}
                        /\ cmJobs' = cmJobs + 1
                   ELSE \* f.stat() raises before the job is created
                        UNCHANGED <<cmJob, active_jobs, cmJobs>>
    /\ UNCHANGED <<cmFiles, files_metadata, indexedFiles, cmLive, completed_jobs, failed_jobs>>
    /\ UNCHANGED nonCompactionVars

\* _compact_files: pq.read_table per input; a file that cannot be read is
\* logged and skipped; no dataframe at all raises ValueError.
CmReadInputs ==
    /\ cmJob.pc = "read"
    /\ \E read \in SUBSET (SeqRange(cmJob.input_files) \cap DOMAIN cmFiles) :
          IF read = {}
          THEN JobFails(cmJob)
          ELSE /\ cmJob' = [cmJob EXCEPT !.pc = "write", !.dataframes = read]
               /\ UNCHANGED <<active_jobs, failed_jobs>>
    /\ UNCHANGED <<cmFiles, files_metadata, indexedFiles, cmLive, cmGroups, completed_jobs, cmJobs>>
    /\ UNCHANGED nonCompactionVars

\* _compact_files: pd.concat and to_parquet next to the first input.
CmWriteOutput ==
    /\ cmJob.pc = "write"
    /\ LET output_path == OutputPath(ParentOf(Head(cmJob.input_files)), cmJob.job_id)
           file == [rows |-> SumOver(cmJob.dataframes, cmFiles, "rows"),
                    size_mb |-> SumOver(cmJob.dataframes, cmFiles, "size_mb")]
       IN  /\ cmFiles' = [p \in (DOMAIN cmFiles) \cup {output_path} |->
                             IF p = output_path THEN file ELSE cmFiles[p]]
           /\ cmJob' = [cmJob EXCEPT !.pc = "cleanup", !.output_file = output_path]
    /\ UNCHANGED <<files_metadata, indexedFiles, cmLive, cmGroups, active_jobs,
                   completed_jobs, failed_jobs, cmJobs>>
    /\ UNCHANGED nonCompactionVars

\* to_parquet raises (disk full): the job is recorded as failed.
CmWriteFails ==
    /\ cmJob.pc = "write"
    /\ JobFails([cmJob EXCEPT !.output_file =
                    OutputPath(ParentOf(Head(cmJob.input_files)), cmJob.job_id)])
    /\ UNCHANGED <<cmFiles, files_metadata, indexedFiles, cmLive, cmGroups, completed_jobs, cmJobs>>
    /\ UNCHANGED nonCompactionVars

\* _cleanup_original_files moves the inputs to the backup directory, one by one
\* (an error stops the moves and is swallowed); the job is then completed.
CmCleanup ==
    /\ cmJob.pc = "cleanup"
    /\ \E k \in 0..Len(cmJob.input_files) :
          LET moved == {cmJob.input_files[i] : i \in 1..k}
              kept == (DOMAIN cmFiles) \ moved
          IN  cmFiles' = [p \in kept \cup {BackupPath(q) : q \in moved} |->
                             IF p \in kept THEN cmFiles[p]
                             ELSE cmFiles[CHOOSE q \in moved : BackupPath(q) = p]]
    /\ completed_jobs' = completed_jobs \cup {JobRecord(cmJob, cmFiles[cmJob.output_file].rows)}
    /\ active_jobs' = active_jobs \ {cmJob.job_id}
    /\ cmJob' = NoJob
    /\ UNCHANGED <<files_metadata, indexedFiles, cmLive, cmGroups, failed_jobs, cmJobs>>
    /\ UNCHANGED nonCompactionVars

NextCompaction ==
    \/ CmIngest
    \/ CmAnalyze
    \/ CmStartJob
    \/ CmReadInputs
    \/ CmWriteOutput
    \/ CmWriteFails
    \/ CmCleanup

(***************************************************************************)
(* metadata-catalog/compaction_manager.py: properties                      *)
(***************************************************************************)
\* C3: every completed compaction job wrote an output file that holds exactly
\* the rows its input files held: none dropped, none duplicated.
C3_CompactionConservesRows ==
    \A job \in completed_jobs :
        /\ job.output_file # <<>>
        /\ job.output_rows = job.input_rows

\* C4: once a job is completed the catalog and the index reference its output
\* and none of its inputs, and a search sees every written row exactly once.
C4_CompactionSwitchesCatalog ==
    /\ \A job \in completed_jobs :
          /\ job.input_files \cap (files_metadata \cup indexedFiles) = {}
          /\ job.output_file \in files_metadata \cap indexedFiles
    /\ RowsSeen = RowsWritten

\* C21: the number of active compaction jobs is at most
\* max_concurrent_compactions in every reachable state, and a job that would
\* exceed the cap is not started: the rest of the groups waits for another
\* cycle.
C21_ActiveJobsCapped ==
    /\ [](Cardinality(active_jobs) <= cmCap)
    /\ [][(cmGroups # <<>> /\ cmJob = NoJob /\ Cardinality(active_jobs) >= cmCap) =>
            (active_jobs' = active_jobs /\ cmJobs' = cmJobs /\ cmJob' = NoJob)]_vars

\* Groups found for a source while the cap leaves no room for a job
C21_Witness ==
    /\ cmGroups # <<>> /\ cmJob = NoJob
    /\ Cardinality(active_jobs) >= cmCap

JobIds(jobs) == {job.job_id : job \in jobs}

JobCompletes == cmJob.pc = "cleanup" /\ completed_jobs' # completed_jobs

InputMoved(file_path) ==
    /\ file_path \notin DOMAIN cmFiles'
    /\ BackupPath(file_path) \in DOMAIN cmFiles'
    /\ cmFiles'[BackupPath(file_path)] = cmFiles[file_path]

InputInPlace(file_path) ==
    /\ file_path \in DOMAIN cmFiles'
    /\ cmFiles'[file_path] = cmFiles[file_path]
    /\ BackupPath(file_path) \notin DOMAIN cmFiles'

\* C20 as stated: when a job is recorded as completed every one of its input
\* files has been moved into the backup directory and none remains at its
\* original location.
C20_AllInputsMoved ==
    [][JobCompletes =>
          \A i \in DOMAIN cmJob.input_files : InputMoved(cmJob.input_files[i])]_vars

\* C20 as the code has it: when a job is recorded as completed every one of
\* its input files is, with its content, either in the backup directory or
\* still at its original location; the moved ones are the inputs before the
\* first move that failed, and no file is deleted.
C20_InputsMovedOrInPlace ==
    [][JobCompletes =>
          /\ \A i \in DOMAIN cmJob.input_files :
                InputMoved(cmJob.input_files[i]) \/ InputInPlace(cmJob.input_files[i])
          /\ \A i, j \in DOMAIN cmJob.input_files :
                (i < j /\ InputMoved(cmJob.input_files[j])) => InputMoved(cmJob.input_files[i])
          /\ Cardinality(DOMAIN cmFiles') = Cardinality(DOMAIN cmFiles)]_vars

\* A completed job with an input in the backup directory and a later input
\* still at its original location
C20_Witness ==
    \E job \in completed_jobs :
        \E f, g \in job.input_files :
            /\ f \notin DOMAIN cmFiles /\ BackupPath(f) \in DOMAIN cmFiles
            /\ g \in DOMAIN cmFiles /\ BackupPath(g) \notin DOMAIN cmFiles

\* A file under a compaction_backup directory.
InBackup(path) == path[1] > 0

\* C35: no file under a compaction_backup directory is in a group found by
\* the analysis or among the inputs of a job.
C35_BackupNeverCompacted ==
    /\ \A i \in DOMAIN cmGroups : \A f \in SeqRange(cmGroups[i]) : ~InBackup(f)
    /\ cmJob # NoJob => \A f \in SeqRange(cmJob.input_files) : ~InBackup(f)
    /\ \A job \in completed_jobs \cup failed_jobs : \A f \in job.input_files : ~InBackup(f)

(***************************************************************************)
(* operation-node/auto_scaler.py: policy, configuration, metrics           *)
(***************************************************************************)
MaxEvals == 6                   \* iterations of the monitoring loop per behaviour

cpu_scale_up_threshold == 70
cpu_scale_down_threshold == 30
memory_scale_up_threshold == 80
memory_scale_down_threshold == 40
max_concurrent_queries == 50
query_queue_threshold == 10
avg_query_time_threshold == 30
scale_up_cooldown == 300
scale_down_cooldown == 600
RecentMetrics == 3              \* list(self.metrics_history)[-3:]
SecondsPerDay == 86400          \* timedelta.seconds runs over 0..86399

Never == [set |-> FALSE, at |-> 0]      \* None
At(t) == [set |-> TRUE, at |-> t]

\* tenant_config.grpc_max_workers and the policy bounds the scaler is built with:
\* ScalingPolicy() defaults, TenantConfig defaults, MIN_WORKERS=20, MAX_WORKERS=5.
ScalerConfigs ==
    {[grpc_max_workers |-> 10, min_workers |-> 2, max_workers |-> 100],
     [grpc_max_workers |-> 10, min_workers |-> 2, max_workers |-> 50],
     [grpc_max_workers |-> 10, min_workers |-> 20, max_workers |-> 50],
     [grpc_max_workers |-> 10, min_workers |-> 2, max_workers |-> 5]}
DefaultScalerConfig == [grpc_max_workers |-> 10, min_workers |-> 2, max_workers |-> 100]

\* The measurements one _collect_metrics may append.
Hot == [cpu_usage |-> 90, memory_usage |-> 50, active_queries |-> 20,
        query_queue_length |-> 0, avg_query_time |-> 5]
Mid == [cpu_usage |-> 50, memory_usage |-> 50, active_queries |-> 5,
        query_queue_length |-> 0, avg_query_time |-> 5]
Idle == [cpu_usage |-> 10, memory_usage |-> 20, active_queries |-> 0,
         query_queue_length |-> 0, avg_query_time |-> 0]
Snapshots == {Hot, Mid, Idle}

\* The time one iteration takes: cpu_percent(interval=1) plus sleep(30), or
\* longer when the process or the host is suspended.
ScSleeps == {31, 270, 86100}

\* sum(m.<field> for m in recent_metrics)
SumField(recent_metrics, field) ==
    SumSeq([i \in DOMAIN recent_metrics |-> recent_metrics[i][field]])

\* The averages are sums over RecentMetrics entries divided by RecentMetrics; the
\* comparisons are stated on the sums.
ScaleUpNeedsAll(recent_metrics) ==
    /\ SumField(recent_metrics, "cpu_usage") > RecentMetrics * cpu_scale_up_threshold
    /\ SumField(recent_metrics, "memory_usage") > RecentMetrics * memory_scale_up_threshold
    /\ 10 * SumField(recent_metrics, "active_queries") > RecentMetrics * 8 * max_concurrent_queries
    /\ SumField(recent_metrics, "query_queue_length") > RecentMetrics * query_queue_threshold
    /\ SumField(recent_metrics, "avg_query_time") > RecentMetrics * avg_query_time_threshold
should_scale_up(recent_metrics) ==
    \/ SumField(recent_metrics, "cpu_usage") > RecentMetrics * cpu_scale_up_threshold
    \/ SumField(recent_metrics, "memory_usage") > RecentMetrics * memory_scale_up_threshold
    \/ 10 * SumField(recent_metrics, "active_queries") > RecentMetrics * 8 * max_concurrent_queries
    \/ SumField(recent_metrics, "query_queue_length") > RecentMetrics * query_queue_threshold
    \/ SumField(recent_metrics, "avg_query_time") > RecentMetrics * avg_query_time_threshold

should_scale_down(recent_metrics) ==
    /\ SumField(recent_metrics, "cpu_usage") < RecentMetrics * cpu_scale_down_threshold
    /\ SumField(recent_metrics, "memory_usage") < RecentMetrics * memory_scale_down_threshold
    /\ 10 * SumField(recent_metrics, "active_queries") < RecentMetrics * 3 * max_concurrent_queries
    /\ SumField(recent_metrics, "query_queue_length") = 0
    /\ 2 * SumField(recent_metrics, "avg_query_time") < RecentMetrics * avg_query_time_threshold

\* (current_time - last).seconds for current_time >= last
Seconds(delta) == delta % SecondsPerDay

\* last is None or (current_time - last).seconds > cooldown
CooldownIgnored(current_time, last, cooldown) == TRUE
CooldownOver(current_time, last, cooldown) ==
    \/ ~last.set
    \/ Seconds(current_time - last.at) > cooldown

\* int(current_workers * 1.5)
ScaleUpTarget(w) == (3 * w) \div 2

\* int(current_workers * 0.7): the double nearest to 0.7 is below 0.7, and for
\* these worker counts (below 300) the product falls just under the integer 7w/10.
RoundedBelow == {90, 170, 180}
ScaleDownTarget(w) == ((7 * w) \div 10) - (IF w \in RoundedBelow THEN 1 ELSE 0)

LastOf(times) == IF times = <<>> THEN Never ELSE At(times[Len(times)])

(***************************************************************************)
(* operation-node/auto_scaler.py: actions                                  *)
(***************************************************************************)
NoEvaluation == [up |-> FALSE, down |-> FALSE, acted |-> "none"]

\* AutoScaler.__init__ for one configuration
ScalerBuilt(cfg) ==
    /\ scNow = 0
    /\ scPolicy = [min_workers |-> cfg.min_workers, max_workers |-> cfg.max_workers]
    /\ current_workers = cfg.grpc_max_workers
    /\ metrics_history = <<>>
    /\ last_scale_up = Never
    /\ last_scale_down = Never
    /\ scPc = "collect"
    /\ scLast = NoEvaluation
    /\ upTimes = <<>>
    /\ downTimes = <<>>
    /\ scEvals = 0

ScalerIdle == ScalerBuilt(DefaultScalerConfig)

InitScaler == \E cfg \in ScalerConfigs : ScalerBuilt(cfg)

\* _collect_metrics appends one measurement.
ScCollect ==
    /\ scPc = "collect"
    /\ \E m \in Snapshots :
          LET h == Append(metrics_history, m)
          IN  metrics_history' = IF Len(h) > RecentMetrics THEN Tail(h) ELSE h
    /\ scPc' = "evaluate"
    /\ UNCHANGED <<scNow, scPolicy, current_workers, last_scale_up, last_scale_down,
                   scLast, upTimes, downTimes, scEvals>>
    /\ UNCHANGED nonScalerVars

\* _collect_metrics raises (psutil): the error is logged, nothing is appended.
ScCollectFails ==
    /\ scPc = "collect"
    /\ scPc' = "evaluate"
    /\ UNCHANGED <<scNow, scPolicy, current_workers, metrics_history, last_scale_up,
                   last_scale_down, scLast, upTimes, downTimes, scEvals>>
    /\ UNCHANGED nonScalerVars

\* _evaluate_scaling with _scale_up / _scale_down
ScEvaluate ==
    /\ scPc = "evaluate"
    /\ scPc' = "sleep"
    /\ IF Len(metrics_history) < RecentMetrics
       THEN /\ scLast' = NoEvaluation
            /\ UNCHANGED <<current_workers, last_scale_up, last_scale_down, upTimes, downTimes>>
       ELSE LET up == should_scale_up(metrics_history)
                down == should_scale_down(metrics_history)
                doUp == /\ up
                        /\ CooldownOver(scNow, last_scale_up, scale_up_cooldown)
                        /\ current_workers < scPolicy.max_workers
                doDown == /\ ~up
                          /\ down
                          /\ CooldownOver(scNow, last_scale_down, scale_down_cooldown)
                          /\ current_workers > scPolicy.min_workers
            IN  /\ scLast' = [up |-> up, down |-> down,
                              acted |-> IF doUp THEN "up" ELSE IF doDown THEN "down" ELSE "none"]
                /\ current_workers' =
                      IF doUp THEN Min2(ScaleUpTarget(current_workers), scPolicy.max_workers)
                      ELSE IF doDown
                           THEN Max2(ScaleDownTarget(current_workers), scPolicy.min_workers)
                           ELSE current_workers
                /\ last_scale_up' = IF doUp THEN At(scNow) ELSE last_scale_up
                /\ last_scale_down' = IF doDown THEN At(scNow) ELSE last_scale_down
                /\ upTimes' = IF doUp THEN Append(upTimes, scNow) ELSE upTimes
                /\ downTimes' = IF doDown THEN Append(downTimes, scNow) ELSE downTimes
    /\ UNCHANGED <<scNow, scPolicy, metrics_history, scEvals>>
    /\ UNCHANGED nonScalerVars

\* asyncio.sleep(30) and the next iteration's cpu_percent(interval=1)
ScSleep ==
    /\ scPc = "sleep"
    /\ scEvals < MaxEvals
    /\ scEvals' = scEvals + 1
    /\ \E dt \in ScSleeps : scNow' = scNow + dt
    /\ scPc' = "collect"
    /\ UNCHANGED <<scPolicy, current_workers, metrics_history, last_scale_up,
                   last_scale_down, scLast, upTimes, downTimes>>
    /\ UNCHANGED nonScalerVars

NextScaler ==
    \/ ScCollect
    \/ ScCollectFails
    \/ ScEvaluate
    \/ ScSleep

(***************************************************************************)
(* operation-node/auto_scaler.py: properties                               *)
(***************************************************************************)
\* C5: in every state of the scaler, from construction onwards,
\* min_workers <= current_workers <= max_workers.
C5_WorkersWithinBounds ==
    /\ scPolicy.min_workers <= current_workers
    /\ current_workers <= scPolicy.max_workers

GapsAtLeast(times, cooldown) ==
    \A i \in 1..(Len(times) - 1) : times[i + 1] - times[i] >= cooldown

\* C6: no two scale-up actions are less than scale_up_cooldown seconds apart
\* and no two scale-down actions less than scale_down_cooldown seconds apart,
\* and each direction's timer is the time of that direction's last action only.
C6_CooldownPerDirection ==
    /\ GapsAtLeast(upTimes, scale_up_cooldown)
    /\ GapsAtLeast(downTimes, scale_down_cooldown)
    /\ last_scale_up = LastOf(upTimes)
    /\ last_scale_down = LastOf(downTimes)

\* A scale-up trigger inside the cooldown of the previous scale-up was evaluated
\* and produced no action, while that scale-up itself came less than
\* scale_down_cooldown seconds after a scale-down.
C6_Witness ==
    /\ scPc = "sleep"
    /\ scLast.up
    /\ scLast.acted = "none"
    /\ current_workers < scPolicy.max_workers
    /\ last_scale_up.set
    /\ scNow - last_scale_up.at < scale_up_cooldown
    /\ last_scale_down.set
    /\ last_scale_down.at < last_scale_up.at
    /\ last_scale_up.at - last_scale_down.at < scale_down_cooldown

\* Measurements in which one metric alone is over its scale-up threshold.
HotMemory == [cpu_usage |-> 50, memory_usage |-> 90, active_queries |-> 5,
              query_queue_length |-> 0, avg_query_time |-> 5]
Crowded == [cpu_usage |-> 50, memory_usage |-> 50, active_queries |-> 45,
            query_queue_length |-> 0, avg_query_time |-> 5]
Queued == [cpu_usage |-> 50, memory_usage |-> 50, active_queries |-> 5,
           query_queue_length |-> 12, avg_query_time |-> 5]
Slow == [cpu_usage |-> 50, memory_usage |-> 50, active_queries |-> 5,
         query_queue_length |-> 0, avg_query_time |-> 40]
EvaluatedSnapshots == Snapshots \cup {HotMemory, Crowded, Queued, Slow}

\* The history the third iteration of the monitoring loop evaluates: three
\* measurements, or fewer when a collection failed.
EvaluatedHistories ==
    {<<>>, <<Hot>>, <<Hot, Hot>>, <<Idle, Idle>>}
        \cup {<<a, b, c>> : a, b, c \in EvaluatedSnapshots}

LoopPeriod == 31    \* cpu_percent(interval=1) and sleep(30)

\* The scaler in its third iteration, between _collect_metrics and
\* _evaluate_scaling; MaxEvals - 1 iterations are counted as done.
InitScalerEvaluating ==
    \E cfg \in ScalerConfigs, history \in EvaluatedHistories :
        /\ scNow = 2 * LoopPeriod
        /\ scPolicy = [min_workers |-> cfg.min_workers, max_workers |-> cfg.max_workers]
        /\ current_workers = cfg.grpc_max_workers
        /\ metrics_history = history
        /\ last_scale_up = Never
        /\ last_scale_down = Never
        /\ scPc = "evaluate"
        /\ scLast = NoEvaluation
        /\ upTimes = <<>>
        /\ downTimes = <<>>
        /\ scEvals = MaxEvals - 1

Metrics == {"cpu_usage", "memory_usage", "active_queries", "query_queue_length",
            "avg_query_time"}

\* The average of a metric over the recent measurements, in thirds.
ThriceAverage(recent_metrics, field) == SumField(recent_metrics, field)

\* The average of the metric is over its scale-up threshold (for the concurrent
\* queries: over 0.8 of max_concurrent_queries).
OverUpThreshold(recent_metrics, field) ==
    CASE field = "cpu_usage" ->
            ThriceAverage(recent_metrics, field) > 3 * cpu_scale_up_threshold
      [] field = "memory_usage" ->
            ThriceAverage(recent_metrics, field) > 3 * memory_scale_up_threshold
      [] field = "active_queries" ->
            10 * ThriceAverage(recent_metrics, field) > 3 * 8 * max_concurrent_queries
      [] field = "query_queue_length" ->
            ThriceAverage(recent_metrics, field) > 3 * query_queue_threshold
      [] OTHER ->
            ThriceAverage(recent_metrics, field) > 3 * avg_query_time_threshold

\* The average of the metric is under its scale-down threshold (for the queue:
\* it is empty; for the query time: under half the threshold).
UnderDownThreshold(recent_metrics, field) ==
    CASE field = "cpu_usage" ->
            ThriceAverage(recent_metrics, field) < 3 * cpu_scale_down_threshold
      [] field = "memory_usage" ->
            ThriceAverage(recent_metrics, field) < 3 * memory_scale_down_threshold
      [] field = "active_queries" ->
            10 * ThriceAverage(recent_metrics, field) < 3 * 3 * max_concurrent_queries
      [] field = "query_queue_length" ->
            ThriceAverage(recent_metrics, field) = 0
      [] OTHER ->
            2 * ThriceAverage(recent_metrics, field) < 3 * avg_query_time_threshold

EvaluationStep == scPc = "evaluate" /\ scPc' = "sleep"
ScaledUp == last_scale_up' # last_scale_up
ScaledDown == last_scale_down' # last_scale_down

\* More than cooldown seconds of clock time since the last action
ElapsedMoreThan(current_time, last, cooldown) ==
    last.set /\ current_time - last.at > cooldown

\* C39: whenever the scale-up (scale-down) condition holds, the worker count
\* is not at its bound and more than the cooldown has elapsed since the last
\* action in that direction, the evaluation performs the scaling action, for
\* every elapsed time greater than the cooldown, however long.
C39_ActsAfterAnyLongerElapsedTime ==
    [][(scPc = "evaluate" /\ scPc' = "sleep" /\ Len(metrics_history) >= RecentMetrics) =>
          LET up == should_scale_up(metrics_history)
              down == should_scale_down(metrics_history)
          IN  /\ (/\ up
                  /\ current_workers < scPolicy.max_workers
                  /\ ElapsedMoreThan(scNow, last_scale_up, scale_up_cooldown))
                      => /\ scLast'.acted = "up"
                         /\ last_scale_up' = At(scNow)
              /\ (/\ ~up
                  /\ down
                  /\ current_workers > scPolicy.min_workers
                  /\ ElapsedMoreThan(scNow, last_scale_down, scale_down_cooldown))
                      => /\ scLast'.acted = "down"
                         /\ last_scale_down' = At(scNow)]_vars

C29_WitnessDown ==
    /\ scPc = "sleep"
    /\ scLast.acted = "down"
    /\ \A field \in Metrics : UnderDownThreshold(metrics_history, field)

(***************************************************************************)
(* cbo-engine/query_optimizer.py: inputs and statistics                    *)
(***************************************************************************)
\* Costs are counted in millionths of a cost unit and selectivities in
\* thousandths, so that the cost factors are whole numbers.
CostUnit == 1000000
SelectivityUnit == 1000
cpu_per_row == 1000             \* 0.001 per row
io_per_mb == 100000             \* 0.1 per MB
DefaultAggInputRows == 1000     \* input rows of an aggregation without operators
MinSelectivity == 1             \* max(selectivity, 0.001)

\* The sources on disk: s1 and s2 hold parquet files, s3 has no parquet directory.
OptSourceData ==
    [s1 |-> [row_count |-> 6000, size_mb |-> 6, columns |-> [id |-> 4, name |-> 10]],
     s2 |-> [row_count |-> 12000, size_mb |-> 12, columns |-> [id |-> 2, date |-> 1]]]

SourceIdLists == {<<>>, <<"s1">>, <<"s3">>, <<"s1", "s2">>, <<"s2", "s3">>}

Item(column, op) == [column |-> column, op |-> op, in_len |-> 0]
ItemIn(column, in_len) == [column |-> column, op |-> "$in", in_len |-> in_len]
FilterNone == [isNone |-> TRUE, items |-> <<>>]
FilterOf(items) == [isNone |-> FALSE, items |-> items]

OptFilters ==
    {FilterNone,
     FilterOf(<<>>),
     FilterOf(<<Item("id", "$eq")>>),
     FilterOf(<<Item("ID", "plain")>>),
     FilterOf(<<Item("date", "$eq")>>),
     FilterOf(<<Item("name", "$like")>>),
     FilterOf(<<ItemIn("id", 1)>>),
     FilterOf(<<Item("id", "plain"), Item("date", "$lt")>>)}

AggregationCounts == {0, 2}     \* len(aggregations)
NoLimit == 0                    \* limit None (or 0): "if limit" is false
Limits == {NoLimit, 10}
ConcurrencyValues == {0, 1, 4, 10}

OptQueries ==
    [query_filter : OptFilters, aggregations : AggregationCounts,
     source_ids : SourceIdLists, limit : Limits]

\* column.lower()
Lower(column) == IF column = "ID" THEN "id" ELSE column

common_indexed_columns == {"id", "timestamp", "created_at", "updated_at", "user_id"}
partition_columns == {"date", "timestamp", "year", "month", "day"}

\* _collect_statistics: the sources of the query that have no table statistics
\* yet are scanned; a source without a parquet directory gets no entry.
CollectedSources(ts, source_ids) ==
    {sid \in SeqRange(source_ids) : sid \notin DOMAIN ts /\ sid \in DOMAIN OptSourceData}

CollectTableStats(ts, source_ids) ==
    [sid \in (DOMAIN ts) \cup CollectedSources(ts, source_ids) |->
        IF sid \in DOMAIN ts THEN ts[sid]
        ELSE [row_count |-> OptSourceData[sid].row_count, size_mb |-> OptSourceData[sid].size_mb]]

CollectColumnStats(cs, ts, source_ids) ==
    [sid \in (DOMAIN cs) \cup CollectedSources(ts, source_ids) |->
        IF sid \in CollectedSources(ts, source_ids) THEN OptSourceData[sid].columns ELSE cs[sid]]

\* self.table_stats.get(source_id, QueryStats(0, 0, 0))
StatsOf(ts, sid) == IF sid \in DOMAIN ts THEN ts[sid] ELSE [row_count |-> 0, size_mb |-> 0]

\* _estimate_filter_selectivity, in thousandths
RECURSIVE SelectivityOver(_, _, _)
SelectivityOver(items, col_stats, selectivity) ==
    IF items = <<>> THEN selectivity
    ELSE LET it == Head(items)
             distinct == IF it.column \in DOMAIN col_stats
                         THEN Max2(col_stats[it.column], 1) ELSE 1
             next ==
                IF it.column \notin DOMAIN col_stats THEN (selectivity * 5) \div 10
                ELSE IF it.op \in {"$eq", "plain"} THEN selectivity \div distinct
                ELSE IF it.op \in {"$gt", "$lt"} THEN (selectivity * 3) \div 10
                ELSE IF it.op = "$in"
                     THEN (IF it.in_len >= distinct THEN selectivity
                           ELSE (selectivity * it.in_len) \div distinct)
                ELSE IF it.op = "$like" THEN (selectivity * 2) \div 10
                ELSE selectivity
         IN  SelectivityOver(Tail(items), col_stats, next)

_estimate_filter_selectivity(cs, query_filter, sid) ==
    Max2(SelectivityOver(query_filter.items,
                         IF sid \in DOMAIN cs THEN cs[sid] ELSE <<>>, SelectivityUnit),
         MinSelectivity)

(***************************************************************************)
(* cbo-engine/query_optimizer.py: plans                                    *)
(***************************************************************************)
Cost(cpu, io, memory, network) ==
    [cpu_cost |-> cpu, io_cost |-> io, memory_cost |-> memory, network_cost |-> network,
     total_cost |-> cpu + io + memory + network]

Plan(plan_id, cost, parallelism) ==
    [plan_id |-> plan_id, estimated_cost |-> cost, parallelism_factor |-> parallelism]

NoPlan == Plan("none", Cost(0, 0, 0, 0), 0)

\* _create_default_plan: CostEstimate(10, 10, 5, 0, 25)
_create_default_plan ==
    Plan("default_plan",
         [cpu_cost |-> 10 * CostUnit, io_cost |-> 10 * CostUnit, memory_cost |-> 5 * CostUnit,
          network_cost |-> 0, total_cost |-> 25 * CostUnit],
         1)

\* The loop of _create_sequential_plan over the sources: the accumulated cpu and
\* io cost, whether an operator was appended and the rows_out of the last one.
RECURSIVE ScanSources(_, _, _, _, _)
ScanSources(source_ids, ts, cs, query_filter, acc) ==
    IF source_ids = <<>> THEN acc
    ELSE LET sid == Head(source_ids)
             stats == StatsOf(ts, sid)
             filtered == ~query_filter.isNone /\ query_filter.items # <<>>
             selectivity == _estimate_filter_selectivity(cs, query_filter, sid)
             scan_cpu == stats.row_count * cpu_per_row
             scan_io == stats.size_mb * io_per_mb
             filter_cpu == (stats.row_count * selectivity) \div 2
             rows_out == IF filtered THEN (stats.row_count * selectivity) \div SelectivityUnit
                         ELSE stats.row_count
         IN  ScanSources(Tail(source_ids), ts, cs, query_filter,
                         [cpu |-> acc.cpu + scan_cpu + (IF filtered THEN filter_cpu ELSE 0),
                          io |-> acc.io + scan_io,
                          has_ops |-> TRUE,
                          rows_out |-> rows_out])

\* _create_sequential_plan: [error, plan]; the limit operator reads operators[-1],
\* which raises IndexError when no operator was appended.
_create_sequential_plan(ts, cs, q) ==
    LET scanned == ScanSources(q.source_ids, ts, cs, q.query_filter,
                               [cpu |-> 0, io |-> 0, has_ops |-> FALSE, rows_out |-> 0])
        input_rows == IF scanned.has_ops THEN scanned.rows_out ELSE DefaultAggInputRows
        agg_cpu == IF q.aggregations > 0
                   THEN input_rows * q.aggregations * cpu_per_row * 2 ELSE 0
        agg_memory == IF q.aggregations > 0 THEN input_rows * 1000 ELSE 0
        has_ops == scanned.has_ops \/ q.aggregations > 0
    IN  IF q.limit # NoLimit /\ ~has_ops
        THEN [error |-> "IndexError", plan |-> NoPlan]
        ELSE [error |-> "none",
              plan |-> Plan("sequential_plan",
                            Cost(scanned.cpu + agg_cpu, scanned.io, agg_memory, 0), 1)]

_has_index(column) == Lower(column) \in common_indexed_columns

\* _create_index_plan: [error, made, plan]; query_filter.keys() raises
\* AttributeError for a None filter as soon as there is a source to look at.
\* (seq is the cost of the sequential plan it builds on, as for the next two.)
_create_index_plan(q, seq) ==
    IF q.source_ids # <<>> /\ q.query_filter.isNone
    THEN [error |-> "AttributeError", made |-> FALSE, plan |-> NoPlan]
    ELSE LET items == q.query_filter.items
             can_use_index == /\ q.source_ids # <<>>
                              /\ \E i \in DOMAIN items : _has_index(items[i].column)
         IN  IF ~can_use_index
             THEN [error |-> "none", made |-> FALSE, plan |-> NoPlan]
             ELSE [error |-> "none", made |-> TRUE,
                   plan |-> Plan("index_plan",
                                 Cost((seq.cpu_cost \div 10) * 8, (seq.io_cost \div 10) * 8,
                                      seq.memory_cost, seq.network_cost), 1)]

\* _create_parallel_plan: [error, plan]; dividing by a parallelism of 0 raises
\* ZeroDivisionError.
_create_parallel_plan(q, seq, max_searches) ==
    LET parallelism == Min2(Len(q.source_ids), max_searches)
    IN  IF parallelism = 0
        THEN [error |-> "ZeroDivisionError", plan |-> NoPlan]
        ELSE [error |-> "none",
              plan |-> Plan("parallel_plan",
                            Cost(seq.cpu_cost \div parallelism, seq.io_cost \div parallelism,
                                 seq.memory_cost * parallelism, seq.network_cost),
                            parallelism)]

\* _estimate_partition_pruning: pruned_ratio in percent, decided by the first
\* filter column that is a partition column.
RECURSIVE PrunedRatio(_)
PrunedRatio(items) ==
    IF items = <<>> THEN 0
    ELSE IF Lower(Head(items).column) \in partition_columns
         THEN (IF Head(items).op \in {"$eq", "plain"} THEN 90
               ELSE IF Head(items).op \in {"$gt", "$lt"} THEN 50
               ELSE 0)
         ELSE PrunedRatio(Tail(items))

\* _create_partition_pruned_plan: [made, plan]
_create_partition_pruned_plan(q, seq) ==
    LET ratio == PrunedRatio(q.query_filter.items)
        can_prune == q.source_ids # <<>> /\ ratio > 0
        pruning_benefit == 100 - ((ratio * 70) \div 100)
    IN  IF ~can_prune
        THEN [made |-> FALSE, plan |-> NoPlan]
        ELSE [made |-> TRUE,
              plan |-> Plan("partition_pruned_plan",
                            Cost((seq.cpu_cost \div 100) * pruning_benefit,
                                 (seq.io_cost \div 100) * pruning_benefit,
                                 (seq.memory_cost \div 100) * pruning_benefit,
                                 seq.network_cost), 1)]

\* The plans that follow the sequential plan plan1, in order of generation.
PlansAfter(q, plan1, max_searches) ==
    LET seq == plan1.plan.estimated_cost
        plan2 == _create_index_plan(q, seq)
        plan3 == _create_parallel_plan(q, seq, max_searches)
        plan4 == _create_partition_pruned_plan(q, seq)
    IN  IF plan1.error # "none" THEN [error |-> plan1.error, plans |-> <<>>]
        ELSE IF plan2.error # "none" THEN [error |-> plan2.error, plans |-> <<>>]
        ELSE IF plan3.error # "none" THEN [error |-> plan3.error, plans |-> <<>>]
        ELSE [error |-> "none",
              plans |-> <<plan1.plan>>
                        \o (IF plan2.made THEN <<plan2.plan>> ELSE <<>>)
                        \o <<plan3.plan>>
                        \o (IF plan4.made THEN <<plan4.plan>> ELSE <<>>)]

\* _generate_execution_plans: [error, plans]; the first exception ends it.
_generate_execution_plans(ts, cs, q, max_searches) ==
    CHOOSE generated \in
        {PlansAfter(q, plan1, max_searches) : plan1 \in {_create_sequential_plan(ts, cs, q)}} :
        TRUE

\* plans.sort(key=lambda p: p.estimated_cost.total_cost): the sort is stable, so
\* plan i ends up behind the cheaper plans and the equally cheap earlier ones.
SortedPosition(plans, i) ==
    1 + Cardinality({j \in DOMAIN plans :
                        \/ plans[j].estimated_cost.total_cost < plans[i].estimated_cost.total_cost
                        \/ /\ plans[j].estimated_cost.total_cost = plans[i].estimated_cost.total_cost
                           /\ j < i})

SortByCost(plans) ==
    [k \in DOMAIN plans |-> plans[CHOOSE i \in DOMAIN plans : SortedPosition(plans, i) = k]]

\* _select_best_plan for a non-empty list of plans
FirstGenerated(plans) == plans[1]
_select_best_plan(plans) == SortByCost(plans)[1]

\* The except branch of optimize_query
Reraise(error) == [failure |-> error, outcome |-> "raised", plans |-> <<>>, plan |-> NoPlan]
Fallback(error) ==
    [failure |-> error, outcome |-> "default", plans |-> <<>>, plan |-> _create_default_plan]

\* The rest of optimize_query once the plans are generated; _select_best_plan
\* raises ValueError for an empty list.
SelectOrFallback(generated) ==
    IF generated.error # "none" THEN Fallback(generated.error)
    ELSE IF generated.plans = <<>> THEN Fallback("ValueError")
    ELSE [failure |-> "none", outcome |-> "plan", plans |-> generated.plans,
          plan |-> _select_best_plan(generated.plans)]

\* optimize_query: [failure, outcome, plans, plan]
optimize_query(ts, cs, q, max_searches) ==
    CHOOSE result \in
        {SelectOrFallback(generated) :
            generated \in {_generate_execution_plans(ts, cs, q, max_searches)}} :
        TRUE

(***************************************************************************)
(* cbo-engine/query_optimizer.py: actions                                  *)
(***************************************************************************)
NoQuery == [query_filter |-> FilterNone, aggregations |-> 0, source_ids |-> <<>>,
            limit |-> NoLimit]

OptimizerIdle ==
    /\ table_stats = <<>>
    /\ column_stats = <<>>
    /\ max_concurrent_searches = 10
    /\ optQuery = NoQuery
    /\ optPlans = <<>>
    /\ optFailure = "none"
    /\ optOutcome = "none"
    /\ optResult = NoPlan

\* optimize_query(query_filter, aggregations, source_ids, limit)
OptQuery ==
    /\ \E q \in OptQueries :
       \E ts \in {CollectTableStats(table_stats, q.source_ids)} :
       \E cs \in {CollectColumnStats(column_stats, table_stats, q.source_ids)} :
       \E r \in {optimize_query(ts, cs, q, max_concurrent_searches)} :
              /\ table_stats' = ts
              /\ column_stats' = cs
              /\ optQuery' = q
              /\ optPlans' = r.plans
              /\ optFailure' = r.failure
              /\ optOutcome' = r.outcome
              /\ optResult' = r.plan
    /\ UNCHANGED max_concurrent_searches
    /\ UNCHANGED nonOptimizerVars

\* The configuration changes (MAX_CONCURRENT_SEARCHES, or the auto-scaler
\* assigning tenant_config.max_concurrent_searches).
OptReconfigure ==
    /\ \E n \in ConcurrencyValues \ {max_concurrent_searches} :
          max_concurrent_searches' = n
    /\ UNCHANGED <<table_stats, column_stats, optQuery, optPlans, optFailure,
                   optOutcome, optResult>>
    /\ UNCHANGED nonOptimizerVars

NextOptimizer ==
    \/ OptQuery
    \/ OptReconfigure

(***************************************************************************)
(* cbo-engine/query_optimizer.py: properties                               *)
(***************************************************************************)
TotalOf(plan) == plan.estimated_cost.total_cost

\* C7: when plans were generated, the returned plan is a candidate of minimum
\* total_cost, and no candidate of the same total_cost was generated before it.
C7_MinCostFirstGenerated ==
    optOutcome = "plan" =>
        \E k \in DOMAIN optPlans :
            /\ optResult = optPlans[k]
            /\ \A i \in DOMAIN optPlans : TotalOf(optPlans[k]) <= TotalOf(optPlans[i])
            /\ \A i \in 1..(k - 1) : TotalOf(optPlans[i]) # TotalOf(optPlans[k])

\* Two different candidates tie at the minimum and the one generated first is
\* the plan returned.
C7_Witness ==
    /\ optOutcome = "plan"
    /\ TotalOf(optResult) > 0
    /\ \E i, j \in DOMAIN optPlans :
          /\ i < j
          /\ optResult = optPlans[i]
          /\ optPlans[j].plan_id # optPlans[i].plan_id
          /\ TotalOf(optPlans[j]) = TotalOf(optPlans[i])

MaxDsWrites == 3

\* WALEntry.to_dict of a new write entry
WriteEntry(operation_id) ==
    [kind |-> "entry", operation_id |-> operation_id, status |-> "pending",
     error_message |-> "none"]

\* The status_entry of _update_operation_status
StatusEntry(operation_id, status, error_message) ==
    [kind |-> "status", operation_id |-> operation_id, status |-> status,
     error_message |-> error_message]

\* log_write_operation
log_write_operation(wal, operation_id) == Append(wal, WriteEntry(operation_id))

\* mark_operation_complete
mark_operation_complete(wal, operation_id) ==
    Append(wal, StatusEntry(operation_id, "completed", "none"))

\* mark_operation_failed
mark_operation_failed(wal, operation_id, error_message) ==
    Append(wal, StatusEntry(operation_id, "failed", error_message))

\* How the steps of a call went: "none" (not reached), "ok" or "failed"; error
\* is str(e) of the exception that ended the try block.
NoSteps == [wal |-> "none", file |-> "none", catalog |-> "none", index |-> "none",
            error |-> "none"]

\* What update_indices_for_data does with an exception: one raised for a column
\* is logged and the column skipped, one raised by _save_indices is logged.
IndexOutcomes == {"ok", "column_error", "save_error"}

DataSourceIdle ==
    /\ dsWal = <<>>
    /\ dsParquet = {}
    /\ dsFilesMetadata = {}
    /\ dsIndices = {}
    /\ dsIndicesSaved = {}
    /\ dsPc = "idle"
    /\ dsWriteId = 0
    /\ dsSteps = <<>>
    /\ dsReturned = <<>>

\* write_data is called: a new write id, then log_write_operation; json.dumps
\* raises for records it cannot serialise and nothing is appended.
DsLogWrite ==
    /\ dsPc \in {"idle", "done"}
    /\ dsWriteId < MaxDsWrites
    /\ dsWriteId' = dsWriteId + 1
    /\ \E serialisable \in BOOLEAN :
          IF serialisable
          THEN /\ dsWal' = log_write_operation(dsWal, dsWriteId')
               /\ dsSteps' = Append(dsSteps, [NoSteps EXCEPT !.wal = "ok"])
               /\ dsPc' = "logged"
          ELSE /\ dsWal' = dsWal
               /\ dsSteps' = Append(dsSteps, [NoSteps EXCEPT !.wal = "failed",
                                                             !.error = "wal error"])
               /\ dsPc' = "failing"
    /\ dsReturned' = Append(dsReturned, "none")
    /\ UNCHANGED <<dsParquet, dsFilesMetadata, dsIndices, dsIndicesSaved>>
    /\ UNCHANGED nonDataSourceVars

\* _write_parquet_file
DsWriteFile ==
    /\ dsPc = "logged"
    /\ \E written \in BOOLEAN :
          IF written
          THEN /\ dsParquet' = dsParquet \cup {dsWriteId}
               /\ dsSteps' = [dsSteps EXCEPT ![dsWriteId].file = "ok"]
               /\ dsPc' = "written"
          ELSE /\ dsParquet' = dsParquet
               /\ dsSteps' = [dsSteps EXCEPT ![dsWriteId].file = "failed",
                                             ![dsWriteId].error = "file error"]
               /\ dsPc' = "failing"
    /\ UNCHANGED <<dsWal, dsFilesMetadata, dsIndices, dsIndicesSaved, dsWriteId, dsReturned>>
    /\ UNCHANGED nonDataSourceVars

\* metadata_manager.register_file, with the stat() of the file in its arguments
DsRegisterFile ==
    /\ dsPc = "written"
    /\ \E registered \in BOOLEAN :
          IF registered
          THEN /\ dsFilesMetadata' = dsFilesMetadata \cup {dsWriteId}
               /\ dsSteps' = [dsSteps EXCEPT ![dsWriteId].catalog = "ok"]
               /\ dsPc' = "registered"
          ELSE /\ dsFilesMetadata' = dsFilesMetadata
               /\ dsSteps' = [dsSteps EXCEPT ![dsWriteId].catalog = "failed",
                                             ![dsWriteId].error = "catalog error"]
               /\ dsPc' = "failing"
    /\ UNCHANGED <<dsWal, dsParquet, dsIndices, dsIndicesSaved, dsWriteId, dsReturned>>
    /\ UNCHANGED nonDataSourceVars

\* index_manager.update_indices_for_data: it never raises.
DsUpdateIndices ==
    /\ dsPc = "registered"
    /\ \E outcome \in IndexOutcomes :
          /\ dsIndices' = IF outcome = "column_error" THEN dsIndices
                          ELSE dsIndices \cup {dsWriteId}
          /\ dsIndicesSaved' = IF outcome = "save_error" THEN dsIndicesSaved ELSE dsIndices'
          /\ dsSteps' = [dsSteps EXCEPT ![dsWriteId].index =
                                            IF outcome = "ok" THEN "ok" ELSE "failed"]
    /\ dsPc' = "indexed"
    /\ UNCHANGED <<dsWal, dsParquet, dsFilesMetadata, dsWriteId, dsReturned>>
    /\ UNCHANGED nonDataSourceVars

\* wal_manager.mark_operation_complete, and write_data returns the write id
DsMarkComplete ==
    /\ dsPc = "indexed"
    /\ dsWal' = mark_operation_complete(dsWal, dsWriteId)
    /\ dsReturned' = [dsReturned EXCEPT ![dsWriteId] = "id"]
    /\ dsPc' = "done"
    /\ UNCHANGED <<dsParquet, dsFilesMetadata, dsIndices, dsIndicesSaved, dsWriteId, dsSteps>>
    /\ UNCHANGED nonDataSourceVars

\* The except branch: wal_manager.mark_operation_failed(write_id, str(e)), raise
DsMarkFailed ==
    /\ dsPc = "failing"
    /\ dsWal' = mark_operation_failed(dsWal, dsWriteId, dsSteps[dsWriteId].error)
    /\ dsReturned' = [dsReturned EXCEPT ![dsWriteId] = "raised"]
    /\ dsPc' = "done"
    /\ UNCHANGED <<dsParquet, dsFilesMetadata, dsIndices, dsIndicesSaved, dsWriteId, dsSteps>>
    /\ UNCHANGED nonDataSourceVars

NextDataSource ==
    \/ DsLogWrite
    \/ DsWriteFile
    \/ DsRegisterFile
    \/ DsUpdateIndices
    \/ DsMarkComplete
    \/ DsMarkFailed

(***************************************************************************)
(* tenant-node/data_source.py: properties                                  *)
(***************************************************************************)
\* The write ids whose write_data call has ended
EndedWrites == {w \in 1..dsWriteId : dsReturned[w] # "none"}

\* The status lines recorded for a write id
StatusLines(w) ==
    {i \in DOMAIN dsWal : dsWal[i].kind = "status" /\ dsWal[i].operation_id = w}

HasWriteEntry(w) ==
    \E i \in DOMAIN dsWal : dsWal[i].kind = "entry" /\ dsWal[i].operation_id = w

AllStepsSucceeded(w) ==
    /\ dsSteps[w].file = "ok"
    /\ dsSteps[w].catalog = "ok"
    /\ dsSteps[w].index = "ok"

SomeStepFailed(w) ==
    \/ dsSteps[w].file = "failed"
    \/ dsSteps[w].catalog = "failed"
    \/ dsSteps[w].index = "failed"

\* C10: a parquet file is written only after the WAL write entry of its write
\* id, and a call that has ended has recorded exactly one status for its write
\* id: completed if the file write, the catalog registration and the index
\* update all succeeded, failed (with the error text) if one of them failed.
C10_WalFirstAndOneStatus ==
    /\ \A w \in dsParquet : HasWriteEntry(w)
    /\ \A w \in EndedWrites :
          /\ Cardinality(StatusLines(w)) = 1
          /\ \A i \in StatusLines(w) :
                /\ AllStepsSucceeded(w) => dsWal[i].status = "completed"
                /\ SomeStepFailed(w) =>
                      /\ dsWal[i].status = "failed"
                      /\ dsWal[i].error_message = dsSteps[w].error

(***************************************************************************)
(* engine/storage/wal_manager.py: WALManager with compress=False           *)
(***************************************************************************)
MaxAppends == 52            \* append calls per behaviour
MaxWalClock == 1            \* the clock runs over 0..MaxWalClock
MaxTimerFlushes == 2        \* flushes by the flush thread per behaviour
MaxTimerBuffer == 2         \* the flush thread finds at most this many entries
MaxFlushFailures == 1       \* failing flushes per behaviour
LargeWindow == 2            \* only the first LargeWindow entries may be large
MAX_WAL_SIZE_BYTES == 5242880
SmallEntryBytes == 100      \* len(json.dumps(entry) + "\n") of a small entry
LargeEntryBytes == 3000000  \* ... of a large entry

WalEntry(id, nbytes) == [id |-> id, nbytes |-> nbytes]

RECURSIVE EntryBytes(_)
EntryBytes(entries) ==
    IF entries = <<>> THEN 0 ELSE Head(entries).nbytes + EntryBytes(Tail(entries))

EntryIds(entries) == {entries[i].id : i \in DOMAIN entries}

NoWalFiles == [k \in {} |-> 0]

\* len(self.buffer) >= ENTRIES_BEFORE_FLUSH
FlushAtTwo(buffer) == Len(buffer) >= 2
ShouldFlush(buffer) == Len(buffer) >= ENTRIES_BEFORE_FLUSH

\* _flush_locked, the choice of the segment: a new path when the current file
\* exists and holds more than MAX_WAL_SIZE_BYTES; the name has the second in it.
SegmentToWrite(files, current, t) ==
    IF current \in DOMAIN files /\ files[current].nbytes > MAX_WAL_SIZE_BYTES
    THEN t ELSE current

\* open(path, "a") and the writes of _flush_locked: written is what reached the
\* file (all of data_to_write when nothing failed). json.dumps puts no line
\* break inside an entry, so every entry is one line of the file.
AppendToFile(files, path, written) ==
    [k \in (DOMAIN files) \cup {path} |->
        IF k = path
        THEN [lines |-> (IF path \in DOMAIN files THEN files[path].lines ELSE <<>>)
                         \o written,
              nbytes |-> (IF path \in DOMAIN files THEN files[path].nbytes ELSE 0)
                         + EntryBytes(written)]
        ELSE files[k]]

\* What reaches the file when a flush fails: nothing (open fails), or every
\* entry but the last (a write fails).
FailedPrefixes(buffer) == {<<>>, SubSeq(buffer, 1, Len(buffer) - 1)}

\* sorted(self.wal_dir.glob("wal_*.log"))
RECURSIVE DescendingSegments(_)
DescendingSegments(paths) ==
    IF paths = {} THEN <<>>
    ELSE LET p == CHOOSE q \in paths : \A r \in paths : q >= r
         IN  <<p>> \o DescendingSegments(paths \ {p})

RECURSIVE SortedSegments(_)
SortedSegments(paths) ==
    IF paths = {} THEN <<>>
    ELSE LET p == CHOOSE q \in paths : \A r \in paths : q <= r
         IN  <<p>> \o SortedSegments(paths \ {p})

\* replay with compress=False: every line of every segment, json.loads, apply_fn
RECURSIVE ReplayPlain(_, _)
ReplayPlain(files, order) ==
    IF order = <<>> THEN <<>>
    ELSE files[Head(order)].lines \o ReplayPlain(files, Tail(order))

NoAppend == [id |-> 0, buffered |-> 0, raised |-> FALSE]

WalManagerIdle ==
    /\ wmClock = 0
    /\ wmBuffer = <<>>
    /\ wmFiles = NoWalFiles
    /\ wmCurrent = 0
    /\ wmPhase = "open"
    /\ wmLoopAlive = TRUE
    /\ wmAppended = <<>>
    /\ wmLast = NoAppend
    /\ wmTimerFlushes = 0
    /\ wmFlushFailures = 0
    /\ wmFailedEntries = {}
    /\ wmRaisedTo = {}
    /\ wmReplayed = <<>>

WalTick ==
    /\ wmClock < MaxWalClock
    /\ wmClock' = wmClock + 1
    /\ UNCHANGED <<wmBuffer, wmFiles, wmCurrent, wmPhase, wmLoopAlive, wmAppended, wmLast,
                   wmTimerFlushes, wmFlushFailures, wmFailedEntries, wmRaisedTo, wmReplayed>>
    /\ UNCHANGED nonWalVars

\* append(entry): the entry joins the buffer; at ENTRIES_BEFORE_FLUSH entries
\* _flush_locked runs inside the call and appends them to the segment.
WalAppend ==
    /\ wmPhase = "open"
    /\ Len(wmAppended) < MaxAppends
    /\ \E nbytes \in {SmallEntryBytes} \cup
                     (IF Len(wmAppended) < LargeWindow THEN {LargeEntryBytes} ELSE {}) :
       \E entry \in {WalEntry(Len(wmAppended) + 1, nbytes)} :
       \E buffer \in {Append(wmBuffer, entry)} :
          /\ wmAppended' = Append(wmAppended, entry)
          /\ wmLast' = [id |-> entry.id, buffered |-> Len(buffer), raised |-> FALSE]
          /\ IF ShouldFlush(buffer)
             THEN /\ wmBuffer' = <<>>
                  /\ wmCurrent' = SegmentToWrite(wmFiles, wmCurrent, wmClock)
                  /\ wmFiles' = AppendToFile(wmFiles, wmCurrent', buffer)
             ELSE /\ wmBuffer' = buffer
                  /\ UNCHANGED <<wmCurrent, wmFiles>>
    /\ UNCHANGED <<wmClock, wmPhase, wmLoopAlive, wmTimerFlushes, wmFlushFailures,
                   wmFailedEntries, wmRaisedTo, wmReplayed>>
    /\ UNCHANGED nonWalVars

\* The same call when the write to the segment fails: _flush_locked has already
\* replaced the buffer, and the exception leaves append.
WalAppendFlushFails ==
    /\ wmPhase = "open"
    /\ Len(wmAppended) < MaxAppends
    /\ wmFlushFailures < MaxFlushFailures
    /\ \E entry \in {WalEntry(Len(wmAppended) + 1, SmallEntryBytes)} :
       \E buffer \in {Append(wmBuffer, entry)} :
          /\ ShouldFlush(buffer)
          /\ wmAppended' = Append(wmAppended, entry)
          /\ wmLast' = [id |-> entry.id, buffered |-> Len(buffer), raised |-> TRUE]
          /\ wmBuffer' = <<>>
          /\ wmCurrent' = SegmentToWrite(wmFiles, wmCurrent, wmClock)
          /\ \E written \in FailedPrefixes(buffer) :
                wmFiles' = IF written = <<>> THEN wmFiles
                           ELSE AppendToFile(wmFiles, wmCurrent', written)
          /\ wmFailedEntries' = wmFailedEntries \cup EntryIds(buffer)
          /\ wmRaisedTo' = wmRaisedTo \cup {entry.id}
    /\ wmFlushFailures' = wmFlushFailures + 1
    /\ UNCHANGED <<wmClock, wmPhase, wmLoopAlive, wmTimerFlushes, wmReplayed>>
    /\ UNCHANGED nonWalVars

\* _flush_loop: after the sleep, a non-empty buffer is flushed.
WalFlushLoop ==
    /\ wmPhase = "open"
    /\ wmLoopAlive
    /\ wmBuffer # <<>>
    /\ Len(wmBuffer) <= MaxTimerBuffer
    /\ wmTimerFlushes < MaxTimerFlushes
    /\ wmTimerFlushes' = wmTimerFlushes + 1
    /\ wmBuffer' = <<>>
    /\ wmCurrent' = SegmentToWrite(wmFiles, wmCurrent, wmClock)
    /\ wmFiles' = AppendToFile(wmFiles, wmCurrent', wmBuffer)
    /\ UNCHANGED <<wmClock, wmPhase, wmLoopAlive, wmAppended, wmLast, wmFlushFailures,
                   wmFailedEntries, wmRaisedTo, wmReplayed>>
    /\ UNCHANGED nonWalVars

\* _flush_loop when the write fails: the exception ends the thread (nothing in
\* _flush_loop catches it); the append calls of the entries returned long ago.
WalFlushLoopFails ==
    /\ wmPhase = "open"
    /\ wmLoopAlive
    /\ wmBuffer # <<>>
    /\ Len(wmBuffer) <= MaxTimerBuffer
    /\ wmTimerFlushes < MaxTimerFlushes
    /\ wmFlushFailures < MaxFlushFailures
    /\ wmTimerFlushes' = wmTimerFlushes + 1
    /\ wmFlushFailures' = wmFlushFailures + 1
    /\ wmBuffer' = <<>>
    /\ wmCurrent' = SegmentToWrite(wmFiles, wmCurrent, wmClock)
    /\ \E written \in FailedPrefixes(wmBuffer) :
          wmFiles' = IF written = <<>> THEN wmFiles
                     ELSE AppendToFile(wmFiles, wmCurrent', written)
    /\ wmFailedEntries' = wmFailedEntries \cup EntryIds(wmBuffer)
    /\ wmLoopAlive' = FALSE
    /\ UNCHANGED <<wmClock, wmPhase, wmAppended, wmLast, wmRaisedTo, wmReplayed>>
    /\ UNCHANGED nonWalVars

\* shutdown(): running = False, join the flush thread, flush what is buffered.
WalShutdown ==
    /\ wmPhase = "open"
    /\ wmPhase' = "shut"
    /\ wmLoopAlive' = FALSE
    /\ wmBuffer' = <<>>
    /\ IF wmBuffer = <<>>
       THEN UNCHANGED <<wmCurrent, wmFiles>>
       ELSE /\ wmCurrent' = SegmentToWrite(wmFiles, wmCurrent, wmClock)
            /\ wmFiles' = AppendToFile(wmFiles, wmCurrent', wmBuffer)
    /\ UNCHANGED <<wmClock, wmAppended, wmLast, wmTimerFlushes, wmFlushFailures,
                   wmFailedEntries, wmRaisedTo, wmReplayed>>
    /\ UNCHANGED nonWalVars

\* shutdown() when its own flush fails: the thread is joined, _flush_locked has
\* replaced the buffer, and the exception leaves shutdown.
WalShutdownFails ==
    /\ wmPhase = "open"
    /\ wmBuffer # <<>>
    /\ wmFlushFailures < MaxFlushFailures
    /\ wmPhase' = "raised"
    /\ wmLoopAlive' = FALSE
    /\ wmFlushFailures' = wmFlushFailures + 1
    /\ wmBuffer' = <<>>
    /\ wmCurrent' = SegmentToWrite(wmFiles, wmCurrent, wmClock)
    /\ \E written \in FailedPrefixes(wmBuffer) :
          wmFiles' = IF written = <<>> THEN wmFiles
                     ELSE AppendToFile(wmFiles, wmCurrent', written)
    /\ wmFailedEntries' = wmFailedEntries \cup EntryIds(wmBuffer)
    /\ UNCHANGED <<wmClock, wmAppended, wmLast, wmTimerFlushes, wmRaisedTo, wmReplayed>>
    /\ UNCHANGED nonWalVars

\* replay(apply_fn) after the shutdown
WalReplay ==
    /\ wmPhase \in {"shut", "raised"}
    /\ wmPhase' = "replayed"
    /\ wmReplayed' = ReplayPlain(wmFiles, SortedSegments(DOMAIN wmFiles))
    /\ UNCHANGED <<wmClock, wmBuffer, wmFiles, wmCurrent, wmLoopAlive, wmAppended, wmLast,
                   wmTimerFlushes, wmFlushFailures, wmFailedEntries, wmRaisedTo>>
    /\ UNCHANGED nonWalVars

NextWal ==
    \/ WalTick
    \/ WalAppend
    \/ WalAppendFlushFails
    \/ WalFlushLoop
    \/ WalFlushLoopFails
    \/ WalShutdown
    \/ WalShutdownFails
    \/ WalReplay

C12_FlushAtThreshold ==
    [][(Len(wmAppended') = Len(wmAppended) + 1 /\ ~wmLast'.raised) =>
          LET buffer == Append(wmBuffer, wmAppended'[Len(wmAppended')])
              before == IF wmCurrent' \in DOMAIN wmFiles
                        THEN wmFiles[wmCurrent'].lines ELSE <<>>
          IN  IF Len(buffer) < ENTRIES_BEFORE_FLUSH
              THEN wmFiles' = wmFiles /\ wmBuffer' = buffer
              ELSE /\ Len(buffer) = ENTRIES_BEFORE_FLUSH
                   /\ wmBuffer' = <<>>
                   /\ wmCurrent' \in DOMAIN wmFiles'
                   /\ wmFiles'[wmCurrent'].lines = before \o buffer]_vars

\* An append has just brought the buffer to the threshold and returned.
C12_Witness ==
    /\ wmPhase = "open"
    /\ wmLast.buffered = ENTRIES_BEFORE_FLUSH
    /\ ~wmLast.raised
    /\ wmLast.id = Len(wmAppended)
    /\ wmBuffer = <<>>
    /\ wmCurrent \in DOMAIN wmFiles
    /\ Len(wmFiles[wmCurrent].lines) >= ENTRIES_BEFORE_FLUSH

\* C13: once a flush has failed, the flush loop has stopped and the append call
\* of every entry that was part of the failed flush has raised.
C13_FlushFailureSurfaced ==
    wmFlushFailures > 0 => (~wmLoopAlive /\ wmFailedEntries \subseteq wmRaisedTo)

\* The entries the segment files hold.
WrittenIds(files) == UNION {EntryIds(files[k].lines) : k \in DOMAIN files}

\* C27: when shutdown() has returned, the flush thread has stopped, the buffer
\* is empty, and every entry appended before the call is in a segment file.
C27_ShutdownFlushesAll ==
    wmPhase = "shut" =>
        /\ ~wmLoopAlive
        /\ wmBuffer = <<>>
        /\ EntryIds(wmAppended) \subseteq WrittenIds(wmFiles)

\* C32: the entries of a failed flush are not lost: after the failure each of
\* them is still in the buffer, unless it already reached a segment file.
C32_FailedFlushKeepsEntries ==
    (wmPhase = "open" /\ wmFlushFailures > 0) =>
        wmFailedEntries \subseteq EntryIds(wmBuffer) \cup WrittenIds(wmFiles)

(***************************************************************************)
(* tenant-node/data_source.py: search_data, aggregate_data, SourceManager  *)
(***************************************************************************)
MaxSearchFiles == 3         \* candidate files over all sources
MaxOffset == 4              \* offsets 0..MaxOffset
MaxSearchLimit == 3         \* limits 1..MaxSearchLimit, and no limit

SearchSources == <<"a", "b">>   \* SourceManager.sources, in insertion order

\* A candidate file: whether read_parquet can read it, and the values of the
\* aggregated column in its rows that match the filter (filtered_df).
ReadableFile(values) == [readable |-> TRUE, values |-> values]
UnreadableFile == [readable |-> FALSE, values |-> <<>>]
CandidateFiles ==
    {UnreadableFile, ReadableFile(<<>>), ReadableFile(<<10>>), ReadableFile(<<20, 30>>)}

\* Row k of file i of the list
RowsOf(i, from, to) == [k \in 1..(to - from + 1) |-> <<i, from + k - 1>>]

\* The state of the loop of search_data
NoProgress == [processed_rows |-> 0, returned_rows |-> 0, chunks |-> <<>>]

\* except Exception: logger.error(...), continue: the loop goes on with what
\* it had before the file.
StopAtUnreadable(progress, stop) == [progress |-> progress, stop |-> TRUE]
SkipUnreadable(progress, stop) == [progress |-> progress, stop |-> stop]

\* start_idx = max(0, offset - processed_rows)
StartAtOffset(offset, processed_rows) == offset
StartIdx(offset, processed_rows) == Max2(0, offset - processed_rows)

\* One file of the loop of search_data, after the limit check
SearchFile(file, i, offset, limit, progress) ==
    LET m == Len(file.values)
        start_idx == StartIdx(offset, progress.processed_rows)
        end_idx == IF limit # NoLimit
                   THEN Min2(m, start_idx + (limit - progress.returned_rows))
                   ELSE m
    IN  IF ~file.readable THEN SkipUnreadable(progress, FALSE)
        ELSE IF m = 0 THEN [progress |-> progress, stop |-> FALSE]
        ELSE IF offset > progress.processed_rows + m
        THEN [progress |-> [progress EXCEPT !.processed_rows = @ + m], stop |-> FALSE]
        ELSE [progress |->
                [processed_rows |-> progress.processed_rows + m,
                 returned_rows |-> progress.returned_rows + (end_idx - start_idx),
                 chunks |-> IF end_idx > start_idx
                            THEN Append(progress.chunks, RowsOf(i, start_idx + 1, end_idx))
                            ELSE progress.chunks],
              stop |-> FALSE]

\* search_data over optimized_files: the chunks it yields
RECURSIVE SearchFrom(_, _, _, _, _)
SearchFrom(files, i, offset, limit, progress) ==
    IF i > Len(files) THEN progress.chunks
    ELSE IF limit # NoLimit /\ progress.returned_rows >= limit THEN progress.chunks
    ELSE CHOOSE chunks \in
            {IF step.stop THEN step.progress.chunks
             ELSE SearchFrom(files, i + 1, offset, limit, step.progress) :
                step \in {SearchFile(files[i], i, offset, limit, progress)}} : TRUE

search_data(files, offset, limit) == SearchFrom(files, 1, offset, limit, NoProgress)

\* Aggregation results: a number n/d, or None
Number(n, d) == [none |-> FALSE, n |-> n, d |-> d]
None == [none |-> TRUE, n |-> 0, d |-> 1]
SameNumber(x, y) == x.none = y.none /\ (~x.none => x.n * y.d = y.n * x.d)
Less(x, y) == x.n * y.d < y.n * x.d

\* The files an aggregation loop gets something from: the others raise in
\* read_parquet and are logged.
RECURSIVE ReadFrom(_, _, _)
ReadFrom(files, i, read) ==
    IF i > Len(files) THEN read
    ELSE IF files[i].readable THEN ReadFrom(files, i + 1, Append(read, files[i]))
    ELSE CHOOSE result \in
            {IF step.stop THEN step.progress ELSE ReadFrom(files, i + 1, step.progress) :
                step \in {SkipUnreadable(read, FALSE)}} : TRUE

ReadFiles(files) == ReadFrom(files, 1, <<>>)

RECURSIVE CountRows(_)
CountRows(files) ==
    IF files = <<>> THEN 0 ELSE Len(Head(files).values) + CountRows(Tail(files))

RECURSIVE SumRows(_)
SumRows(files) ==
    IF files = <<>> THEN 0 ELSE SumSeq(Head(files).values) + SumRows(Tail(files))

RECURSIVE AllValues(_)
AllValues(files) ==
    IF files = <<>> THEN {}
    ELSE {Head(files).values[k] : k \in DOMAIN Head(files).values} \cup AllValues(Tail(files))

\* _count_aggregate, _sum_aggregate, _avg_aggregate, _min_aggregate, _max_aggregate
AggregationTypes == {"count", "sum", "avg", "min", "max"}

aggregate_data(agg_type, files) ==
    LET read == ReadFiles(files)
        total_count == CountRows(read)
        total_sum == SumRows(read)
        values == AllValues(read)
    IN  CASE agg_type = "count" -> Number(total_count, 1)
          [] agg_type = "sum" -> Number(total_sum, 1)
          [] agg_type = "avg" -> IF total_count > 0 THEN Number(total_sum, total_count)
                                 ELSE Number(0, 1)
          [] agg_type = "min" -> IF values = {} THEN None
                                 ELSE Number(CHOOSE v \in values : \A w \in values : v <= w, 1)
          [] agg_type = "max" -> IF values = {} THEN None
                                 ELSE Number(CHOOSE v \in values : \A w \in values : v >= w, 1)

\* sum(values) of numbers
RECURSIVE SumNumbers(_)
SumNumbers(values) ==
    IF values = <<>> THEN Number(0, 1)
    ELSE LET rest == SumNumbers(Tail(values))
         IN  Number(Head(values).n * rest.d + rest.n * Head(values).d, Head(values).d * rest.d)

RECURSIVE Positive(_)
Positive(values) ==
    IF values = <<>> THEN <<>>
    ELSE (IF Head(values).n > 0 THEN <<Head(values)>> ELSE <<>>) \o Positive(Tail(values))

RECURSIVE NotNone(_)
NotNone(values) ==
    IF values = <<>> THEN <<>>
    ELSE (IF ~Head(values).none THEN <<Head(values)>> ELSE <<>>) \o NotNone(Tail(values))

\* _combine_aggregations for one aggregation, over the results of the sources
_combine_aggregations(agg_type, source_results) ==
    CASE agg_type \in {"count", "sum"} -> SumNumbers(source_results)
      [] agg_type = "avg" ->
            LET values == Positive(source_results)
                total == SumNumbers(values)
            IN  IF values = <<>> THEN Number(0, 1)
                ELSE Number(total.n, total.d * Len(values))
      [] agg_type \in {"min", "max"} ->
            LET values == NotNone(source_results)
                best == CHOOSE i \in DOMAIN values :
                            \A j \in DOMAIN values :
                                IF agg_type = "min" THEN ~Less(values[j], values[i])
                                ELSE ~Less(values[i], values[j])
            IN  IF values = <<>> THEN None ELSE values[best]

NoCall == [op |-> "none"]

SearchIdle ==
    /\ srFiles = [s \in {"a", "b"} |-> <<>>]
    /\ srCall = NoCall
    /\ srChunks = <<>>
    /\ srSources = <<>>
    /\ srAggregated = None

\* A file of a source becomes a candidate (written and registered earlier).
SrAddFile ==
    /\ Len(srFiles["a"]) + Len(srFiles["b"]) < MaxSearchFiles
    /\ \E s \in {"a", "b"}, file \in CandidateFiles :
          srFiles' = [srFiles EXCEPT ![s] = Append(@, file)]
    /\ UNCHANGED <<srCall, srChunks, srSources, srAggregated>>
    /\ UNCHANGED nonSearchVars

\* source.search_data(query_filter, limit, offset)
SrSearch ==
    /\ \E s \in {"a", "b"}, offset \in 0..MaxOffset, limit \in {NoLimit} \cup 1..MaxSearchLimit :
          /\ srCall' = [op |-> "search", files |-> srFiles[s], offset |-> offset,
                        limit |-> limit]
          /\ srChunks' = search_data(srFiles[s], offset, limit)
    /\ srSources' = <<>>
    /\ srAggregated' = None
    /\ UNCHANGED srFiles
    /\ UNCHANGED nonSearchVars

\* The rows of a list of chunks
RECURSIVE Flatten(_)
Flatten(chunks) == IF chunks = <<>> THEN <<>> ELSE Head(chunks) \o Flatten(Tail(chunks))

\* _search_source_with_metadata(source_id, source, query_filter, limit, offset):
\* the chunks of source.search_data(query_filter, limit, offset), or nothing
\* when the source yielded no chunk.
NoResult == [found |-> FALSE, source_id |-> "", data |-> <<>>, total_rows |-> 0]
_search_source_with_metadata(source_id, files, limit, offset) ==
    LET results == search_data(files, offset, limit)
    IN  IF results # <<>>
        THEN [found |-> TRUE, source_id |-> source_id, data |-> results,
              total_rows |-> Len(Flatten(results))]
        ELSE NoResult

\* The results search_all_sources yields: "if result: yield result"
RECURSIVE Yielded(_)
Yielded(results) ==
    IF results = <<>> THEN <<>>
    ELSE (IF Head(results).found THEN <<Head(results)>> ELSE <<>>) \o Yielded(Tail(results))

\* search_all_sources(query_filter, limit, offset)
SrSearchAll ==
    /\ \E offset \in 0..MaxOffset, limit \in {NoLimit} \cup 1..MaxSearchLimit :
          /\ srCall' = [op |-> "search_all", files |-> srFiles, offset |-> offset,
                        limit |-> limit]
          /\ srSources' = Yielded([i \in DOMAIN SearchSources |->
                              _search_source_with_metadata(SearchSources[i],
                                  srFiles[SearchSources[i]], limit, offset)])
    /\ srChunks' = <<>>
    /\ srAggregated' = None
    /\ UNCHANGED srFiles
    /\ UNCHANGED nonSearchVars

\* aggregate_all_sources([{"type": agg_type, "column": ...}], filters)
SrAggregate ==
    /\ \E agg_type \in AggregationTypes :
       \E results \in {[i \in DOMAIN SearchSources |->
                          aggregate_data(agg_type, srFiles[SearchSources[i]])]} :
          /\ srCall' = [op |-> "aggregate", files |-> srFiles, agg_type |-> agg_type]
          /\ srSources' = results
          /\ srAggregated' = _combine_aggregations(agg_type, results)
    /\ srChunks' = <<>>
    /\ UNCHANGED srFiles
    /\ UNCHANGED nonSearchVars

NextSearch ==
    \/ SrAddFile
    \/ SrSearch
    \/ SrSearchAll
    \/ SrAggregate

\* The matching rows of the files that can be read, in read order
RECURSIVE MatchingRowsFrom(_, _)
MatchingRowsFrom(files, i) ==
    IF i > Len(files) THEN <<>>
    ELSE (IF files[i].readable THEN RowsOf(i, 1, Len(files[i].values)) ELSE <<>>)
         \o MatchingRowsFrom(files, i + 1)

ValueOfRow(files, row) == files[row[1]].values[row[2]]

\* C14: a search with offset >= 0 and limit >= 1 yields exactly the rows at
\* positions offset .. offset+limit-1 (0-based) of the concatenation of the
\* files' matching rows in read order, also when the range crosses files.
C14_PageOfConcatenation ==
    (srCall.op = "search" /\ srCall.limit >= 1) =>
        LET rows == MatchingRowsFrom(srCall.files, 1)
        IN  /\ Flatten(srChunks) =
                   SubSeq(rows, srCall.offset + 1, Min2(Len(rows), srCall.offset + srCall.limit))
            /\ \A c \in DOMAIN srChunks : srChunks[c] # <<>>

\* A range that starts inside one file and ends inside a later one
C14_Witness ==
    /\ srCall.op = "search" /\ srCall.offset >= 1 /\ srCall.limit >= 2
    /\ Len(srChunks) >= 2
    /\ Len(Flatten(srChunks)) = srCall.limit
    /\ srChunks[1][1][2] > 1
    /\ Len(MatchingRowsFrom(srCall.files, 1)) > srCall.offset + srCall.limit

\* The rows of all the results search_all_sources yielded
RECURSIVE TotalRows(_)
TotalRows(results) ==
    IF results = <<>> THEN 0 ELSE Head(results).total_rows + TotalRows(Tail(results))

\* The rows of all sources that match the filter
AllMatchingRows(files) ==
    MatchingRowsFrom(files[SearchSources[1]], 1) \o MatchingRowsFrom(files[SearchSources[2]], 1)

\* C38: a search across several sources with limit L and offset O returns at
\* most L rows in total and skips O matching rows in total: the limit and
\* the offset apply to the combined result, not to each source separately.
C38_LimitAppliesToCombinedResult ==
    (srCall.op = "search_all" /\ srCall.limit # NoLimit) =>
        LET matching == Len(AllMatchingRows(srCall.files))
            after_offset == IF matching > srCall.offset THEN matching - srCall.offset ELSE 0
        IN  /\ TotalRows(srSources) <= srCall.limit
            /\ TotalRows(srSources) = Min2(srCall.limit, after_offset)

\* All matching rows of all candidate files of all queried sources
AllSourceRows(files) ==
    ReadFiles(files[SearchSources[1]]) \o ReadFiles(files[SearchSources[2]])

\* C15: an avg aggregation returns the total sum divided by the total count
\* over all matching rows of all candidate files of all queried sources.
C15_AvgIsTotalSumOverTotalCount ==
    (srCall.op = "aggregate" /\ srCall.agg_type = "avg") =>
        LET rows == AllSourceRows(srCall.files)
        IN  CountRows(rows) > 0 =>
                SameNumber(srAggregated, Number(SumRows(rows), CountRows(rows)))

\* The values of the rows of the readable files, in read order
RECURSIVE ReadableValuesFrom(_, _)
ReadableValuesFrom(files, i) ==
    IF i > Len(files) THEN <<>>
    ELSE (IF files[i].readable THEN files[i].values ELSE <<>>)
         \o ReadableValuesFrom(files, i + 1)

ExpectedAggregate(agg_type, values) ==
    LET range == {values[k] : k \in DOMAIN values}
    IN  CASE agg_type = "count" -> Number(Len(values), 1)
          [] agg_type = "sum" -> Number(SumSeq(values), 1)
          [] agg_type = "avg" -> IF values = <<>> THEN Number(0, 1)
                                 ELSE Number(SumSeq(values), Len(values))
          [] agg_type \in {"min", "max"} ->
                IF values = <<>> THEN None
                ELSE Number(CHOOSE v \in range : \A w \in range :
                                IF agg_type = "min" THEN v <= w ELSE v >= w, 1)

\* The candidate files with every unreadable one replaced by a readable
\* file without matching rows
UnreadableAsEmpty(files) ==
    [i \in DOMAIN files |-> IF files[i].readable THEN files[i] ELSE ReadableFile(<<>>)]

\* C16: an unreadable candidate file is skipped in search and in every
\* aggregation: it contributes no rows, the pagination goes on as if the
\* file had no matching rows, and the files after it are still read.
C16_UnreadableFileSkipped ==
    /\ srCall.op = "search" =>
          /\ srChunks = search_data(UnreadableAsEmpty(srCall.files), srCall.offset, srCall.limit)
          /\ srCall.limit = NoLimit =>
                LET rows == MatchingRowsFrom(srCall.files, 1)
                IN  Flatten(srChunks) = SubSeq(rows, srCall.offset + 1, Len(rows))
    /\ srCall.op = "aggregate" =>
          \A i \in DOMAIN SearchSources :
              SameNumber(srSources[i],
                         ExpectedAggregate(srCall.agg_type,
                             ReadableValuesFrom(srCall.files[SearchSources[i]], 1)))

\* A search with an offset over an unreadable file between two files with
\* matching rows, which returned rows of the file before and of the file after
C16_Witness ==
    /\ srCall.op = "search" /\ srCall.offset >= 1 /\ srCall.limit >= 2
    /\ Len(srCall.files) = 3
    /\ srCall.files[1].values # <<>>
    /\ ~srCall.files[2].readable
    /\ srCall.files[3].values # <<>>
    /\ Len(srChunks) = 2
    /\ srChunks[1][1][1] = 1
    /\ srChunks[2][1][1] = 3

(***************************************************************************)
(* engine/storage/migrate.py, engine/catalog.py, engine/writer.py          *)
(***************************************************************************)
MaxMgWrites == 3            \* write_jsonl calls in a behaviour
MaxMigrations == 2          \* migrate_to_cold_storage calls in a behaviour
Today == 10                 \* datetime.now, in days
OldDay == 1                 \* a timestamp older than every cutoff used
RecentDay == 8              \* a timestamp older than the cutoff only for cutoff_days = 0

CutoffDays == {0, 7}

\* The values max_ts can hold: records[-1].get("timestamp", timestamp) is
\* whatever the record carries (an ISO string with or without offset, another
\* string, None or a number), or the writer's strftime("%Y%m%dT%H%M%S")
AwareTs(day) == [kind |-> "aware", day |-> day]
NaiveTs(day) == [kind |-> "naive", day |-> day]
TextTs == [kind |-> "text", day |-> 0]
NotStringTs == [kind |-> "not_string", day |-> 0]
WriterTimestamp == NaiveTs(Today)
RecordTimestamps == {AwareTs(OldDay), AwareTs(RecentDay), NaiveTs(OldDay), TextTs, NotStringTs}

\* The file name of the n-th write: dataset/tenant/timestamp.jsonl
MgFilename(n) == n

\* HOT_DIR / path, COLD_DIR / path, and root / path of LocalFileBackend
HotPath(path) == <<"hot", path>>
ColdPath(path) == <<"cold", path>>
RootPath(path) == <<"root", path>>

CatalogPaths(entries) == {entries[i].path : i \in DOMAIN entries}
EntryOf(entries, path) == entries[CHOOSE i \in DOMAIN entries : entries[i].path = path]

\* catalog[path] = {..., "max_ts": max_ts, "location": "hot"}
Upsert(entries, path, max_ts) ==
    LET entry == [path |-> path, max_ts |-> max_ts, location |-> "hot"]
    IN  IF path \in CatalogPaths(entries)
        THEN [i \in DOMAIN entries |-> IF entries[i].path = path THEN entry ELSE entries[i]]
        ELSE Append(entries, entry)

\* datetime.fromisoformat(max_ts_raw.replace("Z", "+00:00")) inside the try
ParsesAsDatetime(max_ts) == max_ts.kind \in {"aware", "naive"}

NoMigration == [catalog |-> <<>>, disk |-> {}]

MigrateIdle ==
    /\ mgCatalog = <<>>
    /\ mgDisk = {}
    /\ mgWritten = 0
    /\ mgPc = "idle"
    /\ mgLoaded = <<>>
    /\ mgIndex = 0
    /\ mgCutoff = 0
    /\ mgMoved = 0
    /\ mgReturned = -1
    /\ mgAtStart = NoMigration
    /\ mgRuns = 0

\* writer.write_jsonl: storage.write_file(filename, data), then
\* register_partition under _catalog_lock. (Its wal.append goes to the
\* writer's own WALManager.)
MgWriteJsonl ==
    /\ mgWritten < MaxMgWrites
    /\ \E max_ts \in RecordTimestamps \cup {WriterTimestamp} :
          /\ mgDisk' = mgDisk \cup {RootPath(MgFilename(mgWritten + 1))}
          /\ mgCatalog' = Upsert(mgCatalog, MgFilename(mgWritten + 1), max_ts)
    /\ mgWritten' = mgWritten + 1
    /\ UNCHANGED <<mgPc, mgLoaded, mgIndex, mgCutoff, mgMoved, mgReturned, mgAtStart, mgRuns>>
    /\ UNCHANGED nonMigrateVars

\* The deployment keeps a partition file under hot/ (done outside this code:
\* nothing in the repository writes below HOT_DIR).
MgPlaceInHot ==
    /\ \E path \in 1..mgWritten :
          /\ RootPath(path) \in mgDisk
          /\ mgDisk' = (mgDisk \ {RootPath(path)}) \cup {HotPath(path)}
    /\ UNCHANGED <<mgCatalog, mgWritten, mgPc, mgLoaded, mgIndex, mgCutoff, mgMoved,
                   mgReturned, mgAtStart, mgRuns>>
    /\ UNCHANGED nonMigrateVars

\* migrate_to_cold_storage(cutoff_days): catalog = load_catalog(), cutoff
MgStart ==
    /\ mgPc \in {"idle", "done", "raised"}
    /\ mgRuns < MaxMigrations
    /\ mgCatalog # <<>>
    /\ \E cutoff_days \in CutoffDays : mgCutoff' = Today - cutoff_days
    /\ mgLoaded' = mgCatalog
    /\ mgIndex' = 1
    /\ mgMoved' = 0
    /\ mgPc' = "loop"
    /\ mgAtStart' = [catalog |-> mgCatalog, disk |-> mgDisk]
    /\ mgRuns' = mgRuns + 1
    /\ UNCHANGED <<mgCatalog, mgDisk, mgWritten, mgReturned>>
    /\ UNCHANGED nonMigrateVars

\* One iteration that leaves the entry alone: not hot, timestamp rejected in
\* the try, not old enough, or file missing in hot
MgSkipEntry ==
    /\ mgPc = "loop" /\ mgIndex <= Len(mgLoaded)
    /\ LET meta == mgLoaded[mgIndex]
       IN  \/ meta.location # "hot"
           \/ ~ParsesAsDatetime(meta.max_ts)
           \/ /\ meta.max_ts.kind = "aware"
              /\ \/ ~(meta.max_ts.day < mgCutoff)
                 \/ HotPath(meta.path) \notin mgDisk
    /\ mgIndex' = mgIndex + 1
    /\ UNCHANGED <<mgCatalog, mgDisk, mgWritten, mgPc, mgLoaded, mgCutoff, mgMoved,
                   mgReturned, mgAtStart, mgRuns>>
    /\ UNCHANGED nonMigrateVars

\* max_ts < cutoff with a datetime without offset: TypeError, outside the try
MgCompareRaises ==
    /\ mgPc = "loop" /\ mgIndex <= Len(mgLoaded)
    /\ mgLoaded[mgIndex].location = "hot"
    /\ mgLoaded[mgIndex].max_ts.kind = "naive"
    /\ mgPc' = "raised"
    /\ UNCHANGED <<mgCatalog, mgDisk, mgWritten, mgLoaded, mgIndex, mgCutoff, mgMoved,
                   mgReturned, mgAtStart, mgRuns>>
    /\ UNCHANGED nonMigrateVars

MgEligible ==
    /\ mgPc = "loop" /\ mgIndex <= Len(mgLoaded)
    /\ mgLoaded[mgIndex].location = "hot"
    /\ mgLoaded[mgIndex].max_ts.kind = "aware"
    /\ mgLoaded[mgIndex].max_ts.day < mgCutoff
    /\ HotPath(mgLoaded[mgIndex].path) \in mgDisk

\* hot_path.rename(cold_path); meta["location"] = "cold"; moved += 1
MgMoveEntry ==
    /\ MgEligible
    /\ mgDisk' = (mgDisk \ {HotPath(mgLoaded[mgIndex].path)})
                    \cup {ColdPath(mgLoaded[mgIndex].path)}
    /\ mgLoaded' = [mgLoaded EXCEPT ![mgIndex].location = "cold"]
    /\ mgMoved' = mgMoved + 1
    /\ mgIndex' = mgIndex + 1
    /\ UNCHANGED <<mgCatalog, mgWritten, mgPc, mgCutoff, mgReturned, mgAtStart, mgRuns>>
    /\ UNCHANGED nonMigrateVars

\* mkdir or rename raising: "Rename failed", caught
MgRenameFails ==
    /\ MgEligible
    /\ mgIndex' = mgIndex + 1
    /\ UNCHANGED <<mgCatalog, mgDisk, mgWritten, mgPc, mgLoaded, mgCutoff, mgMoved,
                   mgReturned, mgAtStart, mgRuns>>
    /\ UNCHANGED nonMigrateVars

\* if moved: save_catalog(catalog); return moved
MgFinish ==
    /\ mgPc = "loop" /\ mgIndex > Len(mgLoaded)
    /\ mgCatalog' = IF mgMoved > 0 THEN mgLoaded ELSE mgCatalog
    /\ mgReturned' = mgMoved
    /\ mgPc' = "done"
    /\ UNCHANGED <<mgDisk, mgWritten, mgLoaded, mgIndex, mgCutoff, mgMoved, mgAtStart, mgRuns>>
    /\ UNCHANGED nonMigrateVars

\* apply_fn over the entries replay delivers: register_partition(filename,
\* size, rows, ts, ts) with the write's own timestamp
RECURSIVE ReRegister(_, _)
ReRegister(entries, delivered) ==
    IF delivered = {} THEN entries
    ELSE LET path == CHOOSE p \in delivered : \A q \in delivered : p <= q
         IN  ReRegister(Upsert(entries, path, WriterTimestamp), delivered \ {path})

\* main.py startup_event in a new process: replay_all() applies apply_fn to
\* the entries of the writer's WAL that replay delivers (those that were
\* flushed and that the line-wise decompression recovers), then
\* migrate_catalog_schema() finds a location in every entry.
MgStartupReplay ==
    /\ mgPc \in {"idle", "done", "raised"}
    /\ \E delivered \in SUBSET {MgFilename(n) : n \in 1..mgWritten} :
          mgCatalog' = ReRegister(mgCatalog, delivered)
    /\ UNCHANGED <<mgDisk, mgWritten, mgPc, mgLoaded, mgIndex, mgCutoff, mgMoved,
                   mgReturned, mgAtStart, mgRuns>>
    /\ UNCHANGED nonMigrateVars

NextMigrate ==
    \/ MgWriteJsonl
    \/ MgPlaceInHot
    \/ MgStart
    \/ MgSkipEntry
    \/ MgCompareRaises
    \/ MgMoveEntry
    \/ MgRenameFails
    \/ MgFinish
    \/ MgStartupReplay

\* The entries the call was to move: hot, max timestamp older than the
\* cutoff, file stored by the write path
DueAtStart ==
    {i \in DOMAIN mgAtStart.catalog :
        /\ mgAtStart.catalog[i].location = "hot"
        /\ mgAtStart.catalog[i].max_ts.kind = "aware"
        /\ mgAtStart.catalog[i].max_ts.day < mgCutoff
        /\ RootPath(mgAtStart.catalog[i].path) \in mgAtStart.disk}

\* C17: a finished migration has moved every hot entry whose max timestamp is
\* older than the cutoff and whose file was stored by the write path to the
\* cold path and set its tier to cold, left every other entry of the catalog
\* it started from unchanged, and returned the number of entries moved.
C17_MovesEveryDueEntry ==
    mgPc = "done" =>
        /\ \A i \in DOMAIN mgAtStart.catalog :
              LET before == mgAtStart.catalog[i]
                  after == EntryOf(mgCatalog, before.path)
              IN  /\ before.path \in CatalogPaths(mgCatalog)
                  /\ IF i \in DueAtStart
                     THEN /\ after = [before EXCEPT !.location = "cold"]
                          /\ ColdPath(before.path) \in mgDisk
                          /\ RootPath(before.path) \notin mgDisk
                          /\ HotPath(before.path) \notin mgDisk
                     ELSE after = before
        /\ mgReturned = Cardinality(DueAtStart)

\* C18: a partition registered while a migration runs is never lost or
\* overwritten by the migration's save of the catalog: every file written
\* keeps its catalog entry.
C18_RegistrationNeverLost ==
    \A path \in 1..mgWritten : path \in CatalogPaths(mgCatalog)

\* The entries the call was to skip: hot, and the file missing from the hot
\* location or max_ts not usable as a timestamp with an offset
SkippedAtStart ==
    {i \in DOMAIN mgAtStart.catalog :
        /\ mgAtStart.catalog[i].location = "hot"
        /\ \/ mgAtStart.catalog[i].max_ts.kind # "aware"
           \/ HotPath(mgAtStart.catalog[i].path) \notin mgAtStart.disk}

\* C19: a migration skips every entry whose file is missing from the hot
\* location or whose max_ts cannot be used, whatever value max_ts holds,
\* leaves that entry unchanged and goes on to the end of the catalog.
C19_UnusableEntrySkipped ==
    /\ mgPc # "raised"
    /\ mgPc = "done" =>
          \A i \in SkippedAtStart :
              /\ mgAtStart.catalog[i].path \in CatalogPaths(mgCatalog)
              /\ EntryOf(mgCatalog, mgAtStart.catalog[i].path) = mgAtStart.catalog[i]

\* C40: a catalog entry whose tier is cold never reverts to hot while its
\* file is in cold storage: over every write, migration step and startup WAL
\* replay, an entry recorded as cold whose file stays under the cold
\* directory is still recorded as cold afterwards.
C40_ColdNeverRevertsToHot ==
    [][\A i \in DOMAIN mgCatalog :
          (/\ mgCatalog[i].location = "cold"
           /\ ColdPath(mgCatalog[i].path) \in mgDisk
           /\ ColdPath(mgCatalog[i].path) \in mgDisk') =>
              /\ mgCatalog[i].path \in CatalogPaths(mgCatalog')
              /\ EntryOf(mgCatalog', mgCatalog[i].path).location = "cold"]_vars

(***************************************************************************)
(* tenant-node/wal.py: WALManager (segments, recovery, cleanup)            *)
(***************************************************************************)
MaxTwOps == 2               \* operations logged in a behaviour
MaxTwClock == 3             \* hours the clock runs
retention_hours == 1        \* WALManager(wal_path, retention_hours=1)
TwSmallBytes == 100         \* a status line, or an entry with little data
TwLargeBytes == 110000000   \* an entry with much data

log_rotation_size == 104857600

OperationTypes == {"write", "delete"}

\* WALEntry.to_dict of a new entry: status is "pending"
TwEntry(operation_id, operation_type, nbytes) ==
    [kind |-> "entry", operation_id |-> operation_id, operation_type |-> operation_type,
     status |-> "pending", error_message |-> "none", bytes |-> nbytes]

LineBytes(line) == IF line.kind = "entry" THEN line.bytes ELSE TwSmallBytes

RECURSIVE FileBytes(_)
FileBytes(lines) == IF lines = <<>> THEN 0 ELSE LineBytes(Head(lines)) + FileBytes(Tail(lines))

\* _create_new_log_file: wal_<now>.jsonl, opened with 'a'
CreateLogFile(files, at) ==
    IF at \in DOMAIN files THEN files
    ELSE [t \in (DOMAIN files) \cup {at} |-> IF t = at THEN <<>> ELSE files[t]]

AppendLine(files, t, line) == [files EXCEPT ![t] = Append(@, line)]

\* The log files in the order of sorted(glob("wal_*.jsonl"))
RECURSIVE SortedLogFiles(_)
SortedLogFiles(names) ==
    IF names = {} THEN <<>>
    ELSE LET first == CHOOSE t \in names : \A u \in names : t <= u
         IN  <<first>> \o SortedLogFiles(names \ {first})

\* Whether get_pending_operations keeps a line: status updates are skipped,
\* an entry is kept when its own status field is "pending"
IsStatusPending(line) == line.kind = "entry" /\ line.status = "pending"
IsUnmarked(line, lines) ==
    /\ line.kind = "entry"
    /\ ~\E i \in DOMAIN lines : lines[i].kind = "status"
                                  /\ lines[i].operation_id = line.operation_id

RECURSIVE PendingIn(_)
PendingIn(lines) ==
    IF lines = <<>> THEN <<>>
    ELSE (IF IsStatusPending(Head(lines)) THEN <<Head(lines).operation_id>> ELSE <<>>)
         \o PendingIn(Tail(lines))

RECURSIVE PendingOver(_, _)
PendingOver(files, order) ==
    IF order = <<>> THEN <<>>
    ELSE PendingIn(files[Head(order)]) \o PendingOver(files, Tail(order))

get_pending_operations(files) == PendingOver(files, SortedLogFiles(DOMAIN files))

\* replay_operations: mark_operation_failed for every pending entry
RECURSIVE MarkAllFailed(_, _, _)
MarkAllFailed(files, current, operation_ids) ==
    IF operation_ids = <<>> THEN files
    ELSE MarkAllFailed(AppendLine(files, current,
                                  StatusEntry(Head(operation_ids), "failed", "replayed")),
                       current, Tail(operation_ids))

\* The files one pass of _cleanup_old_logs unlinks
OldLogFiles(files, current, at) ==
    {t \in DOMAIN files : t < at - retention_hours /\ t # current}

NoPendingCall == [returned |-> <<>>, unmarked |-> {}, called |-> FALSE]

\* The state after initialize() at time 0
TenantWalInitialized ==
    /\ twClock = 0
    /\ twFiles = [t \in {0} |-> <<>>]
    /\ twCurrent = 0
    /\ twOps = 0
    /\ twMarked = <<>>
    /\ twPending = NoPendingCall
    /\ twReplayed = <<>>

TwTick ==
    /\ twClock < MaxTwClock
    /\ twClock' = twClock + 1
    /\ UNCHANGED <<twFiles, twCurrent, twOps, twMarked, twPending, twReplayed>>
    /\ UNCHANGED nonTenantWalVars

\* The process restarts: initialize() creates a new current log file.
TwInitialize ==
    /\ twClock # twCurrent
    /\ twFiles' = CreateLogFile(twFiles, twClock)
    /\ twCurrent' = twClock
    /\ UNCHANGED <<twClock, twOps, twMarked, twPending, twReplayed>>
    /\ UNCHANGED nonTenantWalVars

\* log_write_operation / log_delete_operation: _write_wal_entry, with the
\* rotation of a log file over log_rotation_size
TwLogOperation ==
    /\ twOps < MaxTwOps
    /\ \E operation_type \in OperationTypes, nbytes \in {TwSmallBytes, TwLargeBytes} :
       \E rotate \in {FileBytes(twFiles[twCurrent]) > log_rotation_size} :
          LET files == IF rotate THEN CreateLogFile(twFiles, twClock) ELSE twFiles
              current == IF rotate THEN twClock ELSE twCurrent
          IN  /\ twFiles' = AppendLine(files, current,
                                       TwEntry(twOps + 1, operation_type, nbytes))
              /\ twCurrent' = current
    /\ twOps' = twOps + 1
    /\ twMarked' = Append(twMarked, "pending")
    /\ UNCHANGED <<twClock, twPending, twReplayed>>
    /\ UNCHANGED nonTenantWalVars

\* mark_operation_complete / mark_operation_failed by the caller of the
\* operation: _update_operation_status
TwMarkOperation ==
    /\ \E operation_id \in 1..twOps, status \in {"completed", "failed"} :
          /\ twMarked[operation_id] = "pending"
          /\ twFiles' = AppendLine(twFiles, twCurrent,
                                   StatusEntry(operation_id, status,
                                               IF status = "failed" THEN "error" ELSE "none"))
          /\ twMarked' = [twMarked EXCEPT ![operation_id] = status]
    /\ UNCHANGED <<twClock, twCurrent, twOps, twPending, twReplayed>>
    /\ UNCHANGED nonTenantWalVars

\* get_pending_operations (also behind get_status()["pending_operations"])
TwGetPending ==
    /\ twPending' = [returned |-> get_pending_operations(twFiles),
                     unmarked |-> {id \in 1..twOps : twMarked[id] = "pending"},
                     called |-> TRUE]
    /\ UNCHANGED <<twClock, twFiles, twCurrent, twOps, twMarked, twReplayed>>
    /\ UNCHANGED nonTenantWalVars

\* replay_operations (one recovery that finds something per behaviour)
TwReplay ==
    /\ twOps > 0
    /\ twReplayed = <<>>
    /\ \E pending_ops \in {get_pending_operations(twFiles)} :
          /\ twFiles' = MarkAllFailed(twFiles, twCurrent, pending_ops)
          /\ twReplayed' = pending_ops
    /\ UNCHANGED <<twClock, twCurrent, twOps, twMarked, twPending>>
    /\ UNCHANGED nonTenantWalVars

\* One pass of _cleanup_old_logs
TwCleanup ==
    /\ OldLogFiles(twFiles, twCurrent, twClock) # {}
    /\ twFiles' = [t \in (DOMAIN twFiles) \ OldLogFiles(twFiles, twCurrent, twClock) |->
                      twFiles[t]]
    /\ UNCHANGED <<twClock, twCurrent, twOps, twMarked, twPending, twReplayed>>
    /\ UNCHANGED nonTenantWalVars

NextTenantWal ==
    \/ TwTick
    \/ TwInitialize
    \/ TwLogOperation
    \/ TwMarkOperation
    \/ TwGetPending
    \/ TwReplay
    \/ TwCleanup

\* The status lines of an operation, over all log files
HasStatusLine(operation_id, status) ==
    \E t \in DOMAIN twFiles : \E i \in DOMAIN twFiles[t] :
        /\ twFiles[t][i].kind = "status"
        /\ twFiles[t][i].operation_id = operation_id
        /\ twFiles[t][i].status = status

\* C24: get_pending_operations returns exactly the logged operations that
\* have been marked neither completed nor failed, and replay_operations never
\* marks a completed operation as failed.
C24_PendingIsUnmarked ==
    /\ twPending.called =>
          {twPending.returned[i] : i \in DOMAIN twPending.returned} = twPending.unmarked
    /\ \A operation_id \in 1..twOps :
          ~(HasStatusLine(operation_id, "completed") /\ HasStatusLine(operation_id, "failed"))

\* The operations with an entry in a log file that nobody has marked
UnmarkedIn(lines) ==
    {lines[i].operation_id : i \in {j \in DOMAIN lines : lines[j].kind = "entry"}}
        \cap {id \in 1..twOps : twMarked[id] = "pending"}

\* C25: the cleanup deletes a log file only if it is older than the retention
\* window, is not the active one and holds no pending operation.
C25_CleanupKeepsPending ==
    [][\A t \in (DOMAIN twFiles) \ (DOMAIN twFiles') :
          /\ t < twClock - retention_hours
          /\ t # twCurrent
          /\ UnmarkedIn(twFiles[t]) = {}]_vars

(***************************************************************************)
(* tenant-node/tenant_node.py, cbo-engine/query_optimizer.py:              *)
(* the periodic statistics refresh                                         *)
(***************************************************************************)
MaxRefreshes == 3           \* iterations of the refresh loop per behaviour
MaxRfChanges == 3           \* files added or removed per behaviour

RfSources == {"s1", "s2"}   \* source_manager.list_sources()
\* The parquet files a source may hold: num_rows and st_size of each.
RfFiles == {[name |-> "a", rows |-> 10, bytes |-> 2000],
            [name |-> "b", rows |-> 5, bytes |-> 1000]}

RECURSIVE SumFiles(_, _)
SumFiles(files, field) ==
    IF files = {} THEN 0
    ELSE LET f == CHOOSE g \in files : TRUE
         IN  f[field] + SumFiles(files \ {f}, field)

\* _collect_table_statistics: the QueryStats stored for a source whose parquet
\* directory holds these files.
_collect_table_statistics(files) ==
    [row_count |-> SumFiles(files, "rows"),
     file_count |-> Cardinality(files),
     size_bytes |-> SumFiles(files, "bytes")]

\* _collect_statistics: "if source_id not in self.table_stats" collects only
\* for the sources that have no entry yet.
_collect_statistics(ts, source_ids, disk) ==
    [s \in (DOMAIN ts) \cup source_ids |->
        IF s \in DOMAIN ts THEN ts[s] ELSE _collect_table_statistics(disk[s])]

RefreshIdle ==
    /\ rfDisk = [s \in RfSources |-> {}]
    /\ rfTableStats = <<>>
    /\ rfRefreshes = 0
    /\ rfChanges = 0

\* A write adds a parquet file to a source.
RfAddFile ==
    /\ rfChanges < MaxRfChanges
    /\ \E s \in RfSources, f \in RfFiles :
          /\ f \notin rfDisk[s]
          /\ rfDisk' = [rfDisk EXCEPT ![s] = @ \cup {f}]
    /\ rfChanges' = rfChanges + 1
    /\ UNCHANGED <<rfTableStats, rfRefreshes>>
    /\ UNCHANGED nonRefreshVars

\* A compaction or a delete removes a parquet file from a source.
RfRemoveFile ==
    /\ rfChanges < MaxRfChanges
    /\ \E s \in RfSources, f \in RfFiles :
          /\ f \in rfDisk[s]
          /\ rfDisk' = [rfDisk EXCEPT ![s] = @ \ {f}]
    /\ rfChanges' = rfChanges + 1
    /\ UNCHANGED <<rfTableStats, rfRefreshes>>
    /\ UNCHANGED nonRefreshVars

\* One iteration of _refresh_statistics_periodically.
RfRefresh ==
    /\ rfRefreshes < MaxRefreshes
    /\ rfRefreshes' = rfRefreshes + 1
    /\ rfTableStats' = _collect_statistics(rfTableStats, RfSources, rfDisk)
    /\ UNCHANGED <<rfDisk, rfChanges>>
    /\ UNCHANGED nonRefreshVars

\* optimize_query(..., source_ids, ...) collects statistics on demand.
RfOptimizeQuery ==
    /\ \E source_ids \in (SUBSET RfSources) \ {{}} :
          /\ rfTableStats' = _collect_statistics(rfTableStats, source_ids, rfDisk)
          /\ rfTableStats' # rfTableStats
    /\ UNCHANGED <<rfDisk, rfRefreshes, rfChanges>>
    /\ UNCHANGED nonRefreshVars

NextRefresh ==
    \/ RfAddFile
    \/ RfRemoveFile
    \/ RfRefresh
    \/ RfOptimizeQuery

\* C30: after each iteration of the periodic refresh, the cached statistics of
\* every source are the row, file and byte counts of the files the source
\* holds at that moment.
C30_RefreshRecollectsEverySource ==
    [][rfRefreshes' = rfRefreshes + 1 =>
          \A s \in RfSources :
              /\ s \in DOMAIN rfTableStats'
              /\ rfTableStats'[s] = _collect_table_statistics(rfDisk[s])]_vars

(***************************************************************************)
(* metadata-catalog/metadata.py: MetadataManager and its lock              *)
(***************************************************************************)
MaxMdCalls == 3             \* calls started per behaviour

MdTasks == {1, 2}           \* coroutines calling into the manager
NoTask == 0
MdFiles == {"f1", "f2"}
MdOps == {"register_file", "update_file_metadata", "remove_file_metadata"}

\* A task outside the manager, and a task inside a call: waiting at
\* "async with self._lock" ("acquire") or inside the block ("body"). A
\* register_file called from inside update_file_metadata is "nested".
MdOutside == [op |-> "none", file |-> "", at |-> "outside", nested |-> FALSE]
MdAt(op, file, at, nested) == [op |-> op, file |-> file, at |-> at, nested |-> nested]

MetadataIdle ==
    /\ mdRegistered = {}
    /\ mdLock = NoTask
    /\ mdPc = [t \in MdTasks |-> MdOutside]
    /\ mdDisk = {}
    /\ mdCalls = 0

\* A parquet file appears on disk (a write, or a file dropped in the directory).
MdFileAppears ==
    /\ \E f \in MdFiles \ mdDisk : mdDisk' = mdDisk \cup {f}
    /\ UNCHANGED <<mdRegistered, mdLock, mdPc, mdCalls>>
    /\ UNCHANGED nonMetadataVars

\* A task calls register_file, update_file_metadata (as _on_file_changed does)
\* or remove_file_metadata and reaches "async with self._lock".
MdCall ==
    /\ mdCalls < MaxMdCalls
    /\ mdCalls' = mdCalls + 1
    /\ \E t \in MdTasks, op \in MdOps, f \in MdFiles :
          /\ mdPc[t] = MdOutside
          /\ mdPc' = [mdPc EXCEPT ![t] = MdAt(op, f, "acquire", FALSE)]
    /\ UNCHANGED <<mdRegistered, mdLock, mdDisk>>
    /\ UNCHANGED nonMetadataVars

\* asyncio.Lock.acquire: granted only while nobody holds the lock; the lock is
\* not reentrant, so a holder that asks again waits like anyone else.
MdAcquire ==
    /\ mdLock = NoTask
    /\ \E t \in MdTasks :
          /\ mdPc[t].at = "acquire"
          /\ mdLock' = t
          /\ mdPc' = [mdPc EXCEPT ![t].at = "body"]
    /\ UNCHANGED <<mdRegistered, mdDisk, mdCalls>>
    /\ UNCHANGED nonMetadataVars

\* The block of register_file; leaving it releases the lock. A nested call
\* returns into update_file_metadata, which returns and releases too.
MdRegisterBody ==
    /\ \E t \in MdTasks :
          /\ mdPc[t].op = "register_file"
          /\ mdPc[t].at = "body"
          /\ mdLock = t
          /\ mdRegistered' = mdRegistered \cup {mdPc[t].file}
          /\ mdPc' = [mdPc EXCEPT ![t] = MdOutside]
    /\ mdLock' = NoTask
    /\ UNCHANGED <<mdDisk, mdCalls>>
    /\ UNCHANGED nonMetadataVars

\* The block of update_file_metadata: a registered file is updated; an
\* unregistered file that exists on disk is handed to register_file, from
\* inside the block; an unregistered file that does not exist is left alone.
MdUpdateBody ==
    /\ \E t \in MdTasks :
          /\ mdPc[t].op = "update_file_metadata"
          /\ mdPc[t].at = "body"
          /\ mdLock = t
          /\ IF mdPc[t].file \notin mdRegistered /\ mdPc[t].file \in mdDisk
             THEN /\ mdPc' = [mdPc EXCEPT ![t] = MdAt("register_file", mdPc[t].file,
                                                       "acquire", TRUE)]
                  /\ UNCHANGED mdLock
             ELSE /\ mdPc' = [mdPc EXCEPT ![t] = MdOutside]
                  /\ mdLock' = NoTask
    /\ UNCHANGED <<mdRegistered, mdDisk, mdCalls>>
    /\ UNCHANGED nonMetadataVars

\* The block of remove_file_metadata.
MdRemoveBody ==
    /\ \E t \in MdTasks :
          /\ mdPc[t].op = "remove_file_metadata"
          /\ mdPc[t].at = "body"
          /\ mdLock = t
          /\ mdRegistered' = mdRegistered \ {mdPc[t].file}
          /\ mdPc' = [mdPc EXCEPT ![t] = MdOutside]
    /\ mdLock' = NoTask
    /\ UNCHANGED <<mdDisk, mdCalls>>
    /\ UNCHANGED nonMetadataVars

NextMetadata ==
    \/ MdFileAppears
    \/ MdCall
    \/ MdAcquire
    \/ MdRegisterBody
    \/ MdUpdateBody
    \/ MdRemoveBody

\* C31: every call that has entered the manager returns, and the lock is free
\* again once the calls have returned, so that a later call can acquire it.
C31_UpdateTerminatesAndReleases ==
    \A t \in MdTasks :
        (mdPc[t] # MdOutside) ~> (mdPc[t] = MdOutside /\ mdLock # t)

(***************************************************************************)
(* engine/cache.py: LRUCache                                               *)
(***************************************************************************)
MaxCacheCalls == 4          \* get / set / put calls per behaviour
max_size == 4               \* LRUCache(max_bytes=...), in bytes
ItemSizes == {1, 2, 3}      \* size_bytes of the items (len(value) for put)

CacheKeys == {"a", "b", "c"}

\* self.access_order.remove(key): the first occurrence goes.
RECURSIVE RemoveFirst(_, _)
RemoveFirst(order, key) ==
    IF order = <<>> THEN <<>>
    ELSE IF Head(order) = key THEN Tail(order)
    ELSE <<Head(order)>> \o RemoveFirst(Tail(order), key)

Without(items, key) == [k \in (DOMAIN items) \ {key} |-> items[k]]

\* The while loop of set: pop the oldest key, subtract its size, delete it;
\* self.cache[oldest] raises KeyError when the key is no longer cached.
RECURSIVE Evict(_, _, _, _)
Evict(items, size, order, size_bytes) ==
    IF size + size_bytes > max_size /\ order # <<>>
    THEN LET oldest == Head(order)
         IN  IF oldest \in DOMAIN items
             THEN Evict(Without(items, oldest), size - items[oldest], Tail(order), size_bytes)
             ELSE [cache |-> items, current_size |-> size, access_order |-> Tail(order),
                   raised |-> TRUE]
    ELSE [cache |-> items, current_size |-> size, access_order |-> order, raised |-> FALSE]

\* set(key, value, size_bytes)
CacheSet(items, size, order, key, size_bytes) ==
    LET start == IF key \in DOMAIN items THEN size - items[key] ELSE size
        e == Evict(items, start, order, size_bytes)
    IN  IF e.raised THEN e
        ELSE [cache |-> [k \in (DOMAIN e.cache) \cup {key} |->
                            IF k = key THEN size_bytes ELSE e.cache[k]],
              current_size |-> e.current_size + size_bytes,
              access_order |-> Append(e.access_order, key),
              raised |-> FALSE]

CacheEmpty ==
    /\ cache = <<>>
    /\ current_size = 0
    /\ access_order = <<>>
    /\ lruRaised = FALSE
    /\ lruCalls = 0

\* get(key): a cached key moves to the end of access_order.
LruGet ==
    /\ lruCalls < MaxCacheCalls
    /\ lruCalls' = lruCalls + 1
    /\ \E key \in CacheKeys :
          access_order' = IF key \in DOMAIN cache
                          THEN Append(RemoveFirst(access_order, key), key)
                          ELSE access_order
    /\ UNCHANGED <<cache, current_size, lruRaised>>
    /\ UNCHANGED nonCacheVars

\* set(key, value, size_bytes), and put(key, value) with size_bytes = len(value)
LruSet ==
    /\ lruCalls < MaxCacheCalls
    /\ lruCalls' = lruCalls + 1
    /\ \E key \in CacheKeys, size_bytes \in ItemSizes :
       \E r \in {CacheSet(cache, current_size, access_order, key, size_bytes)} :
          /\ cache' = r.cache
          /\ current_size' = r.current_size
          /\ access_order' = r.access_order
          /\ lruRaised' = (lruRaised \/ r.raised)
    /\ UNCHANGED nonCacheVars

NextCache ==
    \/ LruGet
    \/ LruSet

RECURSIVE SumSizes(_)
SumSizes(items) ==
    IF DOMAIN items = {} THEN 0
    ELSE LET k == CHOOSE q \in DOMAIN items : TRUE
         IN  items[k] + SumSizes(Without(items, k))

\* C36: after any sequence of get, set and put calls current_size is the sum
\* of the sizes of the cached items, access_order lists each cached key exactly
\* once (and nothing else), and no call has failed.
C36_CacheBookkeeping ==
    /\ current_size = SumSizes(cache)
    /\ SeqRange(access_order) = DOMAIN cache
    /\ Len(access_order) = Cardinality(DOMAIN cache)
    /\ ~lruRaised

(***************************************************************************)
(* operation-node/auto_scaler.py: query tracking and avg_query_time        *)
(***************************************************************************)
MaxQtClock == 3             \* the clock runs over 0..MaxQtClock
MaxQueries == 2             \* queries registered per behaviour
MaxQtCollects == 2          \* snapshots per behaviour

\* sum(values) and len(values) of a list of durations: the average is their
\* quotient, 0 when the list is empty.
NoLatency == [sum |-> 0, count |-> 0]

RECURSIVE SumDurations(_, _, _)
SumDurations(ids, ends, starts) ==
    IF ids = {} THEN 0
    ELSE LET q == CHOOSE x \in ids : TRUE
         IN  (ends[q] - starts[q]) + SumDurations(ids \ {q}, ends, starts)

\* _collect_metrics: current_time - start_time for every query in
\* query_start_times that is not in active_queries.
CompletedQueries(starts, active) == (DOMAIN starts) \ active
avg_query_time(starts, active, current_time) ==
    LET completed == CompletedQueries(starts, active)
    IN  [sum |-> SumDurations(completed, [q \in completed |-> current_time], starts),
         count |-> Cardinality(completed)]

NoQueriesYet ==
    /\ qtNow = 0
    /\ query_start_times = <<>>
    /\ active_queries = {}
    /\ qtCompletedAt = <<>>
    /\ qtLatency = NoLatency
    /\ qtCollects = 0

QtTick ==
    /\ qtNow < MaxQtClock
    /\ qtNow' = qtNow + 1
    /\ UNCHANGED <<query_start_times, active_queries, qtCompletedAt, qtLatency, qtCollects>>
    /\ UNCHANGED nonQueryTimesVars

\* register_query_start(query_id)
QtStart ==
    /\ Cardinality(DOMAIN query_start_times) < MaxQueries
    /\ \E query_id \in {Cardinality(DOMAIN query_start_times) + 1} :
          /\ query_start_times' = [q \in (DOMAIN query_start_times) \cup {query_id} |->
                                      IF q = query_id THEN qtNow ELSE query_start_times[q]]
          /\ active_queries' = active_queries \cup {query_id}
    /\ UNCHANGED <<qtNow, qtCompletedAt, qtLatency, qtCollects>>
    /\ UNCHANGED nonQueryTimesVars

\* register_query_complete(query_id)
QtComplete ==
    /\ \E query_id \in active_queries :
          /\ active_queries' = active_queries \ {query_id}
          /\ qtCompletedAt' = [q \in (DOMAIN qtCompletedAt) \cup {query_id} |->
                                  IF q = query_id THEN qtNow ELSE qtCompletedAt[q]]
    /\ UNCHANGED <<qtNow, query_start_times, qtLatency, qtCollects>>
    /\ UNCHANGED nonQueryTimesVars

\* _collect_metrics: the avg_query_time of the snapshot it appends
QtCollect ==
    /\ qtCollects < MaxQtCollects
    /\ qtCollects' = qtCollects + 1
    /\ qtLatency' = avg_query_time(query_start_times, active_queries, qtNow)
    /\ UNCHANGED <<qtNow, query_start_times, active_queries, qtCompletedAt>>
    /\ UNCHANGED nonQueryTimesVars

NextQueryTimes ==
    \/ QtTick
    \/ QtStart
    \/ QtComplete
    \/ QtCollect

\* C37: the avg_query_time a snapshot stores is the mean of completion time
\* minus start time over the completed queries (so it is the same in every
\* later snapshot while the set of completed queries is the same).
C37_LatencyIsMeanDuration ==
    [][qtCollects' = qtCollects + 1 =>
          /\ qtLatency'.count = Cardinality(DOMAIN qtCompletedAt)
          /\ qtLatency'.sum =
                SumDurations(DOMAIN qtCompletedAt, qtCompletedAt, query_start_times)]_vars

(***************************************************************************)
(* Specifications                                                          *)
(***************************************************************************)
InitSpecEngine == InitEngine /\ IndexIdle /\ CompactionIdle /\ ScalerIdle /\ OptimizerIdle /\ DataSourceIdle
    /\ WalManagerIdle /\ SearchIdle /\ MigrateIdle /\ DefaultPolicy /\ TenantWalInitialized
    /\ RefreshIdle /\ MetadataIdle /\ CacheEmpty /\ NoQueriesYet

SpecEngine == InitSpecEngine /\ [][NextEngine]_vars

InitSpecIndex == EngineIdle /\ IndexIdle /\ CompactionIdle /\ ScalerIdle /\ OptimizerIdle /\ DataSourceIdle
    /\ WalManagerIdle /\ SearchIdle /\ MigrateIdle /\ DefaultPolicy /\ TenantWalInitialized
    /\ RefreshIdle /\ MetadataIdle /\ CacheEmpty /\ NoQueriesYet

SpecIndex == InitSpecIndex /\ [][NextIndex]_vars

InitSpecCompaction == EngineIdle /\ IndexIdle /\ CompactionIdle /\ ScalerIdle /\ OptimizerIdle /\ DataSourceIdle
    /\ WalManagerIdle /\ SearchIdle /\ MigrateIdle /\ DefaultPolicy /\ TenantWalInitialized
    /\ RefreshIdle /\ MetadataIdle /\ CacheEmpty /\ NoQueriesYet

SpecCompaction == InitSpecCompaction /\ [][NextCompaction]_vars

InitSpecScaler == EngineIdle /\ IndexIdle /\ CompactionIdle /\ InitScaler /\ OptimizerIdle /\ DataSourceIdle
    /\ WalManagerIdle /\ SearchIdle /\ MigrateIdle /\ DefaultPolicy /\ TenantWalInitialized
    /\ RefreshIdle /\ MetadataIdle /\ CacheEmpty /\ NoQueriesYet

SpecScaler == InitSpecScaler /\ [][NextScaler]_vars

InitSpecOptimizer == EngineIdle /\ IndexIdle /\ CompactionIdle /\ ScalerIdle /\ OptimizerIdle /\ DataSourceIdle
    /\ WalManagerIdle /\ SearchIdle /\ MigrateIdle /\ DefaultPolicy /\ TenantWalInitialized
    /\ RefreshIdle /\ MetadataIdle /\ CacheEmpty /\ NoQueriesYet

SpecOptimizer == InitSpecOptimizer /\ [][NextOptimizer]_vars

InitSpecDataSource ==
    EngineIdle /\ IndexIdle /\ CompactionIdle /\ ScalerIdle /\ OptimizerIdle /\ DataSourceIdle
    /\ WalManagerIdle /\ SearchIdle /\ MigrateIdle /\ DefaultPolicy /\ TenantWalInitialized
    /\ RefreshIdle /\ MetadataIdle /\ CacheEmpty /\ NoQueriesYet

SpecDataSource == InitSpecDataSource /\ [][NextDataSource]_vars

InitSpecWal ==
    EngineIdle /\ IndexIdle /\ CompactionIdle /\ ScalerIdle /\ OptimizerIdle /\ DataSourceIdle
    /\ WalManagerIdle /\ SearchIdle /\ MigrateIdle /\ DefaultPolicy /\ TenantWalInitialized
    /\ RefreshIdle /\ MetadataIdle /\ CacheEmpty /\ NoQueriesYet

SpecWal == InitSpecWal /\ [][NextWal]_vars

InitSpecSearch ==
    EngineIdle /\ IndexIdle /\ CompactionIdle /\ ScalerIdle /\ OptimizerIdle /\ DataSourceIdle
    /\ WalManagerIdle /\ SearchIdle /\ MigrateIdle /\ DefaultPolicy /\ TenantWalInitialized
    /\ RefreshIdle /\ MetadataIdle /\ CacheEmpty /\ NoQueriesYet

SpecSearch == InitSpecSearch /\ [][NextSearch]_vars

InitSpecMigrate ==
    EngineIdle /\ IndexIdle /\ CompactionIdle /\ ScalerIdle /\ OptimizerIdle /\ DataSourceIdle
    /\ WalManagerIdle /\ SearchIdle /\ MigrateIdle /\ DefaultPolicy /\ TenantWalInitialized
    /\ RefreshIdle /\ MetadataIdle /\ CacheEmpty /\ NoQueriesYet

SpecMigrate == InitSpecMigrate /\ [][NextMigrate]_vars

InitSpecCompactionCap ==
    EngineIdle /\ IndexIdle /\ CompactionIdle /\ ScalerIdle /\ OptimizerIdle /\ DataSourceIdle
    /\ WalManagerIdle /\ SearchIdle /\ MigrateIdle /\ ConfiguredPolicy /\ TenantWalInitialized
    /\ RefreshIdle /\ MetadataIdle /\ CacheEmpty /\ NoQueriesYet

SpecCompactionCap == InitSpecCompactionCap /\ [][NextCompaction]_vars

\* _compact_source and _execute_compaction_job have no suspension point: once
\* called they run to their end.
SpecCompactionFair ==
    /\ InitSpecCompaction /\ [][NextCompaction]_vars
    /\ WF_vars(CmStartJob)
    /\ WF_vars(CmReadInputs \/ CmWriteOutput \/ CmWriteFails \/ CmCleanup)

InitSpecTenantWal ==
    EngineIdle /\ IndexIdle /\ CompactionIdle /\ ScalerIdle /\ OptimizerIdle /\ DataSourceIdle
    /\ WalManagerIdle /\ SearchIdle /\ MigrateIdle /\ DefaultPolicy /\ TenantWalInitialized
    /\ RefreshIdle /\ MetadataIdle /\ CacheEmpty /\ NoQueriesYet

SpecTenantWal == InitSpecTenantWal /\ [][NextTenantWal]_vars

InitSpecScalerEval == EngineIdle /\ IndexIdle /\ CompactionIdle /\ InitScalerEvaluating /\ OptimizerIdle /\ DataSourceIdle
    /\ WalManagerIdle /\ SearchIdle /\ MigrateIdle /\ DefaultPolicy /\ TenantWalInitialized
    /\ RefreshIdle /\ MetadataIdle /\ CacheEmpty /\ NoQueriesYet

SpecScalerEval == InitSpecScalerEval /\ [][NextScaler]_vars

InitSpecRefresh == EngineIdle /\ IndexIdle /\ CompactionIdle /\ ScalerIdle /\ OptimizerIdle /\ DataSourceIdle
    /\ WalManagerIdle /\ SearchIdle /\ MigrateIdle /\ DefaultPolicy /\ TenantWalInitialized /\ RefreshIdle
    /\ MetadataIdle /\ CacheEmpty /\ NoQueriesYet

SpecRefresh == InitSpecRefresh /\ [][NextRefresh]_vars

InitSpecMetadata == EngineIdle /\ IndexIdle /\ CompactionIdle /\ ScalerIdle /\ OptimizerIdle /\ DataSourceIdle
    /\ WalManagerIdle /\ SearchIdle /\ MigrateIdle /\ DefaultPolicy /\ TenantWalInitialized /\ RefreshIdle
    /\ MetadataIdle /\ CacheEmpty /\ NoQueriesYet

\* The event loop runs every task that can take a step.
SpecMetadata == InitSpecMetadata /\ [][NextMetadata]_vars
    /\ WF_vars(MdAcquire) /\ WF_vars(MdRegisterBody) /\ WF_vars(MdUpdateBody)
    /\ WF_vars(MdRemoveBody)

InitSpecCache == EngineIdle /\ IndexIdle /\ CompactionIdle /\ ScalerIdle /\ OptimizerIdle /\ DataSourceIdle
    /\ WalManagerIdle /\ SearchIdle /\ MigrateIdle /\ DefaultPolicy /\ TenantWalInitialized /\ RefreshIdle
    /\ MetadataIdle /\ CacheEmpty /\ NoQueriesYet

SpecCache == InitSpecCache /\ [][NextCache]_vars

InitSpecQueryTimes == EngineIdle /\ IndexIdle /\ CompactionIdle /\ ScalerIdle /\ OptimizerIdle /\ DataSourceIdle
    /\ WalManagerIdle /\ SearchIdle /\ MigrateIdle /\ DefaultPolicy /\ TenantWalInitialized /\ RefreshIdle
    /\ MetadataIdle /\ CacheEmpty /\ NoQueriesYet

SpecQueryTimes == InitSpecQueryTimes /\ [][NextQueryTimes]_vars

====
